---- MODULE Spec2Model ----
(***************************************************************************)
(* The simulation core of src/src/components/GameScene.tsx: the mutable    *)
(* record gameStateRef.current, the frame callback gameLoop with the       *)
(* helpers it calls, and the input handlers.                               *)
(*                                                                         *)
(* Numbers.  Lengths and positions are integers in 1/100 pixel, so that    *)
(* the fractional ball speeds of the level table (6.05, 6.25 px per tick)  *)
(* and the 0.03 px per tick descent of the bricks are exact.  Multipliers  *)
(* are integers too: paddleSizeMultiplier and ballSpeedMultiplier in       *)
(* tenths (8, 10, 13, 15), timeSpeedMultiplier in hundredths (100..150).   *)
(* Timers, score, lives and health are the program's integers.             *)
(*                                                                         *)
(* Not modelled: drawing, sound, and the decorative particle lists         *)
(* (particles, bossExplosionParticles, ballColor, paddleColor), which no   *)
(* simulation step reads.                                                  *)
(***************************************************************************)
EXTENDS Integers, Sequences, FiniteSets, TLC

VARIABLES
  level,   \* the level prop of the component, immutable for the run
  state,   \* gameStateRef.current
  isPaused,\* the component's isPaused (useState), which the pause button reads
  calls,   \* the invocations of the onGameOver prop so far, in order
  tick,    \* what the last operation did (history, for stating the claims)
  fuel     \* what is left to explore: [frames, inputs]

vars == <<level, state, isPaused, calls, tick, fuel>>

----------------------------------------------------------------------------
(* Geometry of the canvas and of the entities, in 1/100 px.                *)

CanvasWidth == 80000
CanvasHeight == 120000
PaddleWidth == 16800
PaddleHeight == 2500
PaddleSpeed == 800
PaddleTop == CanvasHeight - 20000
BallRadius == 1500
BrickHeight == 4500
BrickPadding == 1000
BrickOffsetTop == 5000
BrickOffsetLeft == 4000
FireballRadius == 800
BossHitboxSize == 4800
SmallBossHitboxSize == 2000
PowerupSpeed == 200
PowerupReach == 1500
ShieldNear == 500
ShieldFar == 1200
MaxLives == 3
Fps == 60
SmallBossBonus == 100
BrickScore == 10
BossCountdown == 120
BossFirePeriod == 120
BossFireballSpeed == 300
SmallBossFireballSpeed == 250
BrickDescent == 30
PaddleBoxShift == 500
RampPeriod == 600
RampStep == 5
RampCap == 150
(* timeSpeedMultiplier is a double.  With D = 225179981368524 and one unit *)
(* 2^-52, the double 0.05 is D + 13/16 units and 1.5 is 10 * D + 8 units   *)
(* above 1; a sum q * D + r + D + 13/16 rounds to (q + 1) * D + r + 1.     *)
(* The state keeps q in timeSpeedMultiplier = 100 + 5 * q and r in         *)
(* timeSpeedUlps.                                                          *)
RampStepUlps == 1
RampCapUlps == 8

Min(a, b) == IF a < b THEN a ELSE b
Max(a, b) == IF a > b THEN a ELSE b
Abs(a) == IF a < 0 THEN -a ELSE a

(* x * n / d for a signed x, rounded towards zero.                         *)
Scale(x, n, d) == IF x < 0 THEN -(((-x) * n) \div d) ELSE (x * n) \div d

RECURSIVE SqrtIter(_, _, _)
SqrtIter(n, lo, hi) ==
  IF lo >= hi THEN lo
  ELSE LET mid == (lo + hi + 1) \div 2
       IN IF mid * mid <= n THEN SqrtIter(n, mid, hi) ELSE SqrtIter(n, lo, mid - 1)

(* Math.sqrt on the integers: the largest r with r * r <= n.               *)
Sqrt(n) == SqrtIter(n, 0, 40000)

----------------------------------------------------------------------------
(* The level table of the application (generateLevels), the rows used.     *)

Level1 == [id |-> 1, rows |-> 3, columns |-> 6, maxBrickHits |-> 1, ballSpeed |-> 605]
Level5 == [id |-> 5, rows |-> 4, columns |-> 7, maxBrickHits |-> 1, ballSpeed |-> 625]
Level7 == [id |-> 7, rows |-> 4, columns |-> 7, maxBrickHits |-> 2, ballSpeed |-> 635]
Level26 == [id |-> 26, rows |-> 6, columns |-> 8, maxBrickHits |-> 3, ballSpeed |-> 748]

EveryLevel(lv) == TRUE

IsBossLevel(lv) == lv.id % 5 = 0

BrickWidth(lv) == ((CanvasWidth - 7000) \div lv.columns) - 1000
TotalRows(lv) == (lv.rows * 15) \div 10

(* The brick grid built at level start, in the order of the two loops.     *)
MakeBricks(lv) ==
  [k \in 1..(TotalRows(lv) * lv.columns) |->
     LET row == (k - 1) \div lv.columns
         col == (k - 1) % lv.columns
         maxHits == Min((row \div 2) + 1, lv.maxBrickHits)
     IN [x |-> col * (BrickWidth(lv) + BrickPadding) + BrickOffsetLeft,
         y |-> row * (BrickHeight + BrickPadding) + BrickOffsetTop,
         width |-> BrickWidth(lv),
         height |-> BrickHeight,
         hits |-> maxHits,
         maxHits |-> maxHits,
         originalX |-> 0,
         originalY |-> 0]]

NewBall(x, y, dx, dy) == [x |-> x, y |-> y, dx |-> dx, dy |-> dy, radius |-> BallRadius]

(* gameStateRef.current after the mount effect has run for level lv.       *)
InitialState(lv) ==
  [paddle |-> [x |-> CanvasWidth \div 2 - PaddleWidth \div 2 + 500,
               y |-> PaddleTop,
               width |-> PaddleWidth, height |-> PaddleHeight, speed |-> PaddleSpeed],
   balls |-> <<NewBall(CanvasWidth \div 2, CanvasHeight - 6000, 0, 0)>>,
   bricks |-> MakeBricks(lv),
   powerups |-> <<>>,
   boss |-> <<>>,
   bossActive |-> FALSE,
   bossDestructionTimer |-> 0,
   smallBoss |-> <<>>,
   fireballs |-> <<>>,
   keys |-> [left |-> FALSE, right |-> FALSE],
   mouseX |-> 0,
   score |-> 0,
   lives |-> MaxLives,
   isRunning |-> TRUE,
   isPaused |-> FALSE,
   waitingForLaunch |-> TRUE,
   damageBonus |-> 0,
   tempDamage |-> 0,
   tempDamageTimer |-> 0,
   debuffDamage |-> 0,
   debuffDamageTimer |-> 0,
   paddleSizeMultiplier |-> 10,
   paddleSizeTimer |-> 0,
   ballSpeedMultiplier |-> 10,
   ballSpeedTimer |-> 0,
   timeSpeedMultiplier |-> 100,
   timeSpeedUlps |-> 0,
   timeElapsed |-> 0,
   shieldActive |-> FALSE,
   shieldTimer |-> 0,
   doublePointsActive |-> FALSE,
   doublePointsTimer |-> 0,
   brickVerticalOffset |-> 0]

----------------------------------------------------------------------------
(* The record of one operation: the callbacks it invoked and the events    *)
(* the claims speak about.  It is history, not program state.              *)

NoLog(op) ==
  [op |-> op,
   calls |-> <<>>,        \* onGameOver(score, won) invocations, in order
   lives |-> <<>>,        \* values passed to setLives, in order
   hits |-> 0,            \* life-losing events: all balls lost, fireball on paddle
   burns |-> 0,           \* of these, the fireballs on the paddle
   absorbed |-> 0,        \* of these, how many the shield absorbed
   graced |-> 0,          \* of these, how many the destruction countdown skipped
   lost |-> 0,            \* executions of state.lives--
   boxLoss |-> FALSE,     \* updateBrickMovement reported a brick on the paddle
   activeBricks |-> -1,   \* the count of live bricks taken in this frame
   destroyed |-> 0,       \* bricks brought to hits <= 0
   bonus |-> 0,           \* mini-boss hits, each worth the bonus
   cleared |-> 0,         \* TEMP_DAMAGE pickups that found damageBonus > 0
   spawnedSmallBoss |-> 0,\* calls of spawnSmallBoss
   startedBoss |-> FALSE, \* startBossBattle was called
   offScreen |-> 0,       \* fireballs and power-ups removed below the field
   pickups |-> <<>>]      \* power-up types applied

(* A frame in progress: the state, the log, and whether gameLoop returned. *)
(* drops holds the centres of the bricks destroyed in it, in order.         *)
Work(s) == [s |-> s, log |-> NoLog("gameLoop"), ret |-> FALSE, drops |-> <<>>]

(* state.isRunning = false; onGameOver(state.score, won).                  *)
EndRun(w, won) ==
  [w EXCEPT !.s.isRunning = FALSE,
            !.log.calls = Append(@, [score |-> w.s.score, won |-> won])]

(* state.lives--; setLives(state.lives).                                   *)
LoseLife(w) ==
  [w EXCEPT !.s.lives = @ - 1,
            !.log.lives = Append(@, w.s.lives - 1),
            !.log.lost = @ + 1]

BelowZeroLives(s) == s.lives < 0

(* if (state.lives <= 0), after a fireball hit and after the ball loss.    *)
OutOfLives(s) == s.lives <= 0

KeepShield(w) == [w EXCEPT !.log.absorbed = @ + 1]

(* if (state.shieldActive) state.shieldActive = false, instead of a life.  *)
AbsorbHit(w) == [w EXCEPT !.s.shieldActive = FALSE, !.log.absorbed = @ + 1]

NeverHalted(s) == FALSE

HaltedWhenOver(s) == ~s.isRunning

(* The guard of gameLoop: nothing runs once the run ended or while paused. *)
Halted(s) == ~s.isRunning \/ s.isPaused

RemoveAt(seq, i) == [k \in 1..(Len(seq) - 1) |-> IF k < i THEN seq[k] ELSE seq[k + 1]]

----------------------------------------------------------------------------
(* Paddle.                                                                 *)

EffectiveWidth(s) == (s.paddle.width * s.paddleSizeMultiplier) \div 10
PaddleOffset(s) == (s.paddle.width - EffectiveWidth(s)) \div 2
(* paddleX, paddleWidth of gameLoop: the drawn, effective-width paddle.    *)
PaddleX(s) == s.paddle.x + PaddleOffset(s)

MovePaddle(s) ==
  LET effectiveWidth == EffectiveWidth(s)
      offset == PaddleOffset(s)
      x0 == s.paddle.x
      x1 == IF s.keys.left /\ x0 > -offset THEN x0 - s.paddle.speed ELSE x0
      x2 == IF s.keys.right /\ x1 < CanvasWidth - effectiveWidth - offset
            THEN x1 + s.paddle.speed ELSE x1
      x3 == IF s.mouseX > 0
            THEN Max(-offset, Min(CanvasWidth - effectiveWidth - offset,
                                  s.mouseX - effectiveWidth \div 2))
            ELSE x2
  IN [s EXCEPT !.paddle.x = x3]

(* While waiting for launch the first ball, and an idle second one, sit on *)
(* the paddle.                                                             *)
PinFirstBall(s) ==
  IF ~s.waitingForLaunch \/ Len(s.balls) = 0 THEN s
  ELSE [s EXCEPT !.balls[1].x = s.paddle.x + s.paddle.width \div 2,
                 !.balls[1].y = s.paddle.y - s.balls[1].radius - 200]

PinBalls(s) ==
  IF ~s.waitingForLaunch \/ Len(s.balls) = 0 THEN s
  ELSE LET pin(b) == [b EXCEPT !.x = s.paddle.x + s.paddle.width \div 2,
                               !.y = s.paddle.y - b.radius - 200]
       IN [s EXCEPT !.balls =
             [k \in 1..Len(s.balls) |->
                IF k = 1 THEN pin(s.balls[k])
                ELSE IF k = 2 /\ s.balls[k].dx = 0 /\ s.balls[k].dy = 0
                     THEN pin(s.balls[k])
                     ELSE s.balls[k]]]

(* v * ballSpeedMultiplier * timeSpeedMultiplier.                          *)
Step(s, v) == Scale(v, s.ballSpeedMultiplier * s.timeSpeedMultiplier, 1000)

MoveBalls(s) ==
  IF s.waitingForLaunch THEN s
  ELSE [s EXCEPT !.balls =
          [k \in 1..Len(s.balls) |->
             [s.balls[k] EXCEPT !.x = @ + Step(s, s.balls[k].dx),
                                !.y = @ + Step(s, s.balls[k].dy)]]]

----------------------------------------------------------------------------
(* Fireballs, boss and mini-boss movement.                                 *)

(* A fireball from (x, y) aimed at the paddle centre: the direction        *)
(* normalised and multiplied by speed.  The distance is taken in whole     *)
(* pixels.                                                                 *)
AimedFireball(s, x, y, speed, color) ==
  LET dx == (s.paddle.x + s.paddle.width \div 2) - x
      dy == s.paddle.y - y
      distance == Sqrt(Scale(dx, 1, 100) * Scale(dx, 1, 100)
                       + Scale(dy, 1, 100) * Scale(dy, 1, 100))
  IN [x |-> x, y |-> y,
      dx |-> Scale(dx, speed, distance * 100),
      dy |-> Scale(dy, speed, distance * 100),
      color |-> color]

UpdateBossMovement(s) ==
  LET b0 == s.boss[1]
      moveTimer == b0.moveTimer + 1
      x == b0.x + b0.directionX * 200
      directionX == IF x < 5000 \/ x > CanvasWidth - 5000 THEN -b0.directionX
                    ELSE b0.directionX
      y == b0.y + b0.directionY * 100
      directionY == IF y < 5000 \/ y > 20000 THEN -b0.directionY ELSE b0.directionY
      b1 == [b0 EXCEPT !.moveTimer = moveTimer, !.x = x, !.y = y,
                       !.directionX = directionX, !.directionY = directionY]
  IN [s EXCEPT !.boss = <<b1>>,
               !.fireballs = IF moveTimer % BossFirePeriod = 0
                             THEN Append(@, AimedFireball(s, x, y, BossFireballSpeed, "#ffaa00"))
                             ELSE @]

SmallBossNeverLeaves(s) ==
  [s EXCEPT !.smallBoss[1].x = @ + s.smallBoss[1].direction * s.smallBoss[1].speed]

UpdateSmallBoss(s) ==
  LET sb == s.smallBoss[1]
      x == sb.x + sb.direction * sb.speed
      gone == IF sb.direction = 1 THEN x > CanvasWidth + 5000
              ELSE sb.direction = -1 /\ x < -5000
  IN [s EXCEPT !.smallBoss = <<[sb EXCEPT !.x = x, !.active = ~gone]>>]

SmallBossActive(s) == Len(s.smallBoss) > 0 /\ s.smallBoss[1].active

(* The mini-boss fires when Math.random() < 0.02: fire is that outcome.    *)
SmallBossFire(s, fire) ==
  IF SmallBossActive(s) /\ fire
  THEN [s EXCEPT !.fireballs =
          Append(@, AimedFireball(s, s.smallBoss[1].x, s.smallBoss[1].y,
                                  SmallBossFireballSpeed, "#ff0000"))]
  ELSE s

AlwaysBurns(s) == TRUE

(* if (state.bossDestructionTimer == 0): the fireball takes a life.        *)
FireballBurns(s) == s.bossDestructionTimer = 0

RECURSIVE FireballLoop(_, _, _, _)
FireballLoop(w, i, paddleX, paddleWidth) ==
  IF i < 1 THEN w
  ELSE
    LET f0 == w.s.fireballs[i]
        f == [f0 EXCEPT !.x = @ + f0.dx, !.y = @ + f0.dy]
    IN IF f.y > CanvasHeight
       THEN FireballLoop([w EXCEPT !.s.fireballs = RemoveAt(@, i),
                                   !.log.offScreen = @ + 1],
                         i - 1, paddleX, paddleWidth)
       ELSE IF /\ f.y + FireballRadius > w.s.paddle.y
               /\ f.x > paddleX
               /\ f.x < paddleX + paddleWidth
               /\ f.y < w.s.paddle.y + w.s.paddle.height
       THEN
         LET w1 == [w EXCEPT !.s.fireballs = RemoveAt(@, i),
                             !.log.hits = @ + 1, !.log.burns = @ + 1]
             w2 == IF w1.s.shieldActive
                   THEN AbsorbHit(w1)
                   ELSE IF FireballBurns(w1.s)
                        THEN LoseLife(w1)
                        ELSE [w1 EXCEPT !.log.graced = @ + 1]
         IN IF OutOfLives(w2.s)
            THEN EndRun(w2, FALSE)
            ELSE FireballLoop(w2, i - 1, paddleX, paddleWidth)
       ELSE FireballLoop([w EXCEPT !.s.fireballs[i] = f],
                         i - 1, paddleX, paddleWidth)

UpdateFireballs(w, paddleX, paddleWidth) ==
  FireballLoop(w, Len(w.s.fireballs), paddleX, paddleWidth)

----------------------------------------------------------------------------
(* Oscillating bricks of every fifth level.  horizontalOffset is           *)
(* 35 * sin(Date.now() * 0.0012), a value of the wall clock.               *)

Overlaps(ax, aw, ay, ah, bx, bw, by, bh) ==
  /\ ax + aw > bx
  /\ ax < bx + bw
  /\ ay + ah > by
  /\ ay < by + bh

(* The paddle box updateBrickMovement tests the bricks against.            *)
BrickCheckPaddleX(s) == PaddleX(s) + PaddleBoxShift

BrickHitsPaddle(s, brick) ==
  /\ brick.hits > 0
  /\ Overlaps(brick.x, brick.width, brick.y, brick.height,
              BrickCheckPaddleX(s), EffectiveWidth(s), s.paddle.y, s.paddle.height)

MoveBrick(s, brick, horizontalOffset) ==
  IF brick.hits <= 0 THEN brick
  ELSE
    LET originalX == IF brick.originalX = 0 THEN brick.x ELSE brick.originalX
        originalY == IF s.waitingForLaunch THEN brick.originalY
                     ELSE IF brick.originalY = 0 THEN brick.y ELSE brick.originalY
        y == IF s.waitingForLaunch THEN brick.y
             ELSE originalY + s.brickVerticalOffset \div 10
        x == Max(0, Min(CanvasWidth - brick.width, originalX + horizontalOffset))
    IN [brick EXCEPT !.originalX = originalX, !.originalY = originalY,
                     !.x = x, !.y = y]

UpdateBrickMovement(w, horizontalOffset) ==
  LET s0 == w.s
      s1 == [s0 EXCEPT
               !.bricks = [k \in 1..Len(s0.bricks) |->
                             MoveBrick(s0, s0.bricks[k], horizontalOffset)],
               !.brickVerticalOffset = IF s0.waitingForLaunch THEN @ ELSE @ + BrickDescent]
      w1 == [w EXCEPT !.s = s1]
  IN IF \E k \in 1..Len(s1.bricks) : BrickHitsPaddle(s1, s1.bricks[k])
     THEN EndRun([w1 EXCEPT !.log.boxLoss = TRUE], FALSE)
     ELSE w1

----------------------------------------------------------------------------
(* Ball against walls, paddle and shield line.                             *)

(* sin and cos of (hitPos - 0.5) * 0.6 * pi in thousandths, for hitPos in  *)
(* eighths of the paddle width.                                            *)
SinMilli == <<-809, -649, -454, -233, 0, 233, 454, 649, 809>>
CosMilli == <<588, 760, 891, 972, 1000, 972, 891, 760, 588>>

WallBounceSidesOnly(ball) ==
  LET dx1 == IF ball.x + ball.radius > CanvasWidth THEN -Abs(ball.dx) ELSE ball.dx
      dx2 == IF ball.x - ball.radius < 0 THEN Abs(dx1) ELSE dx1
  IN [ball EXCEPT !.dx = dx2]

WallBounce(ball) ==
  LET dx1 == IF ball.x + ball.radius > CanvasWidth THEN -Abs(ball.dx) ELSE ball.dx
      dx2 == IF ball.x - ball.radius < 0 THEN Abs(dx1) ELSE dx1
      dy1 == IF ball.y - ball.radius < 0 THEN Abs(ball.dy) ELSE ball.dy
  IN [ball EXCEPT !.dx = dx2, !.dy = dy1]

PaddleBounce(s, ball, paddleX, paddleWidth) ==
  IF /\ 2 * ball.y < 2 * s.paddle.y + 3 * s.paddle.height
     /\ ball.y + ball.radius > s.paddle.y
     /\ ball.x > paddleX
     /\ ball.x < paddleX + paddleWidth
     /\ ball.dy > 0
  THEN LET eighth == (16 * (ball.x - paddleX) + paddleWidth) \div (2 * paddleWidth)
           speed == Sqrt(ball.dx * ball.dx + ball.dy * ball.dy)
       IN [ball EXCEPT !.dx = Scale(SinMilli[eighth + 1], speed, 1000),
                       !.dy = -Abs(Scale(CosMilli[eighth + 1], speed, 1000))]
  ELSE ball

ShieldBounce(s, ball) ==
  IF /\ s.shieldActive
     /\ ball.y + ball.radius > s.paddle.y + s.paddle.height + ShieldNear
     /\ ball.y - ball.radius < s.paddle.y + s.paddle.height + ShieldFar
     /\ ball.dy > 0
  THEN [ball EXCEPT !.dy = -ball.dy]
  ELSE ball

BallCollisions(s, paddleX, paddleWidth) ==
  [s EXCEPT !.balls =
     [k \in 1..Len(s.balls) |->
        ShieldBounce(s, PaddleBounce(s, WallBounce(s.balls[k]), paddleX, paddleWidth))]]

----------------------------------------------------------------------------
(* Balls below the field.                                                  *)

BallIsLost(s, ball) == ~s.waitingForLaunch /\ ball.y - ball.radius > CanvasHeight

RespawnNothing(s) == [s EXCEPT !.balls = <<>>, !.waitingForLaunch = TRUE]

RespawnBall(s) ==
  [s EXCEPT !.balls = <<NewBall(s.paddle.x + s.paddle.width \div 2,
                                s.paddle.y - 1000 - 200, 0, 0)>>,
            !.waitingForLaunch = TRUE]

AnyBallLost(before, after) == after < before

(* if (ballLost) ... if (state.balls.length === 0): before and after are   *)
(* the numbers of balls before and after the removal.                      *)
AllBallsLost(before, after) == after < before /\ after = 0

BallLoss(w) ==
  LET s0 == w.s
      kept == SelectSeq(s0.balls, LAMBDA b : ~BallIsLost(s0, b))
      w1 == [w EXCEPT !.s.balls = kept]
  IN IF ~AllBallsLost(Len(s0.balls), Len(kept)) THEN w1
     ELSE
       LET w2 == IF s0.shieldActive
                 THEN AbsorbHit([w1 EXCEPT !.log.hits = @ + 1])
                 ELSE LoseLife([w1 EXCEPT !.log.hits = @ + 1])
       IN IF OutOfLives(w2.s)
          THEN [EndRun(w2, FALSE) EXCEPT !.ret = TRUE]
          ELSE [w2 EXCEPT !.s = RespawnBall(w2.s)]

----------------------------------------------------------------------------
(* Ball against bricks, boss and mini-boss.                                *)

ActiveBricks(s) == Cardinality({k \in 1..Len(s.bricks) : s.bricks[k].hits > 0})

BallOverBox(ball, x, width, y, height) ==
  Overlaps(ball.x - ball.radius, 2 * ball.radius, ball.y - ball.radius, 2 * ball.radius,
           x, width, y, height)

BallOverBrick(ball, brick) ==
  BallOverBox(ball, brick.x, brick.width, brick.y, brick.height)

CollidingAnyBricks(s, ball) ==
  LET n == Len(s.bricks)
  IN SelectSeq([k \in 1..n |-> n + 1 - k], LAMBDA i : BallOverBrick(ball, s.bricks[i]))

(* The indices of the live bricks the ball overlaps, last brick first.     *)
CollidingBricks(s, ball) ==
  LET n == Len(s.bricks)
  IN SelectSeq([k \in 1..n |-> n + 1 - k],
               LAMBDA i : s.bricks[i].hits > 0 /\ BallOverBrick(ball, s.bricks[i]))

UnitDamage(s) == 1

(* 1 + state.damageBonus + state.tempDamage.                               *)
Damage(s) == 1 + s.damageBonus + s.tempDamage

NeverDebuffed(s) == FALSE

(* if (state.debuffDamage > 0) continue.                                   *)
Debuffed(s) == s.debuffDamage > 0

(* The boss takes the hit and the ball is turned away from its centre.     *)
BossCollision(w, k) ==
  LET s == w.s
      ball == s.balls[k]
      boss == s.boss[1]
  IN IF BallOverBox(ball, boss.x - BossHitboxSize, 2 * BossHitboxSize,
                    boss.y - BossHitboxSize, 2 * BossHitboxSize)
     THEN [w EXCEPT !.s.boss[1].health = @ - Damage(s),
                    !.s.balls[k].dx = IF ball.x < boss.x THEN -Abs(ball.dx) ELSE Abs(ball.dx),
                    !.s.balls[k].dy = IF ball.y < boss.y THEN -Abs(ball.dy) ELSE Abs(ball.dy)]
     ELSE w

SmallBossStaysActive(w, k) ==
  LET s == w.s
      ball == s.balls[k]
      sb == s.smallBoss[1]
  IN IF BallOverBox(ball, sb.x - SmallBossHitboxSize, 2 * SmallBossHitboxSize,
                    sb.y - SmallBossHitboxSize, 2 * SmallBossHitboxSize)
     THEN [w EXCEPT !.s.score = @ + SmallBossBonus,
                    !.log.bonus = @ + 1]
     ELSE w

SmallBossCollision(w, k) ==
  LET s == w.s
      ball == s.balls[k]
      sb == s.smallBoss[1]
  IN IF BallOverBox(ball, sb.x - SmallBossHitboxSize, 2 * SmallBossHitboxSize,
                    sb.y - SmallBossHitboxSize, 2 * SmallBossHitboxSize)
     THEN [w EXCEPT !.s.score = @ + SmallBossBonus,
                    !.s.smallBoss[1].active = FALSE,
                    !.log.bonus = @ + 1]
     ELSE w

AlwaysVertical(ball, brick) == [ball EXCEPT !.dy = -ball.dy]

(* The bounce off one brick, by the smaller penetration.                   *)
SingleBrickBounce(ball, brick) ==
  LET overlapX == Min((ball.x + ball.radius) - brick.x,
                      (brick.x + brick.width) - (ball.x - ball.radius))
      overlapY == Min((ball.y + ball.radius) - brick.y,
                      (brick.y + brick.height) - (ball.y - ball.radius))
  IN IF overlapX < overlapY THEN [ball EXCEPT !.dx = -ball.dx]
     ELSE [ball EXCEPT !.dy = -ball.dy]

(* The bounce off two or more bricks, by the ball's height against them.   *)
MultiBrickBounce(s, ball, colliding) ==
  LET tops == {s.bricks[colliding[j]].y : j \in 1..Len(colliding)}
      bottoms == {s.bricks[colliding[j]].y + s.bricks[colliding[j]].height :
                    j \in 1..Len(colliding)}
      minTop == CHOOSE v \in tops : \A u \in tops : v <= u
      maxBottom == CHOOSE v \in bottoms : \A u \in bottoms : v >= u
  IN IF ball.y < minTop \/ ball.y > maxBottom THEN [ball EXCEPT !.dy = -ball.dy]
     ELSE [ball EXCEPT !.dx = -ball.dx]

BrickBounce(s, ball, colliding) ==
  IF Len(colliding) = 1 THEN SingleBrickBounce(ball, s.bricks[colliding[1]])
  ELSE MultiBrickBounce(s, ball, colliding)

(* spawnSmallBoss: side, height and speed are random; sb holds the draw.   *)
SpawnSmallBoss(s, sb) ==
  [s EXCEPT !.smallBoss =
     <<[x |-> IF sb.direction = 1 THEN -3000 ELSE CanvasWidth + 3000,
        y |-> sb.y,
        direction |-> sb.direction,
        speed |-> sb.speed,
        active |-> TRUE,
        spawned |-> TRUE]>>]

(* bricksBroken >= totalBricks * 0.7, from the count taken before the      *)
(* collisions of this frame.                                               *)
SmallBossDue(s, activeBricks) ==
  /\ 10 * (Len(s.bricks) - activeBricks) >= 7 * Len(s.bricks)
  /\ (Len(s.smallBoss) = 0 \/ ~s.smallBoss[1].spawned)

NegatedPoints(s, brick) == 0 - BrickScore * brick.maxHits

SinglePoints(s, brick) == BrickScore * brick.maxHits

(* 10 * brick.maxHits * (state.doublePointsActive ? 2 : 1).                *)
BrickPoints(s, brick) == BrickScore * brick.maxHits * (IF s.doublePointsActive THEN 2 ELSE 1)

(* One colliding brick takes the damage; a destroyed one scores, may call  *)
(* the mini-boss and may drop a power-up.                                  *)
DamageBrick(w, i, activeBricks, sb) ==
  IF Debuffed(w.s) THEN w
  ELSE
    LET hits == w.s.bricks[i].hits - Damage(w.s)
        w1 == [w EXCEPT !.s.bricks[i].hits = hits]
    IN IF hits > 0 THEN w1
       ELSE
         LET brick == w1.s.bricks[i]
             w2 == [w1 EXCEPT !.s.score = @ + BrickPoints(w1.s, brick),
                              !.log.destroyed = @ + 1,
                              !.drops = Append(@, [x |-> brick.x + brick.width \div 2,
                                                   y |-> brick.y + brick.height \div 2])]
         IN IF SmallBossDue(w2.s, activeBricks)
            THEN [w2 EXCEPT !.s = SpawnSmallBoss(w2.s, sb),
                            !.log.spawnedSmallBoss = @ + 1]
            ELSE w2

RECURSIVE DamageLoop(_, _, _, _, _)
DamageLoop(w, colliding, j, activeBricks, sb) ==
  IF j > Len(colliding) THEN w
  ELSE DamageLoop(DamageBrick(w, colliding[j], activeBricks, sb),
                  colliding, j + 1, activeBricks, sb)

(* The body of the loop over the balls, for ball k.                        *)
CollideBall(w, k, activeBricks, sb) ==
  LET colliding == CollidingBricks(w.s, w.s.balls[k])
      w1 == IF w.s.bossActive /\ Len(w.s.boss) > 0 THEN BossCollision(w, k) ELSE w
      w2 == IF SmallBossActive(w1.s) THEN SmallBossCollision(w1, k) ELSE w1
  IN IF Len(colliding) = 0 THEN w2
     ELSE DamageLoop([w2 EXCEPT !.s.balls[k] = BrickBounce(w2.s, w2.s.balls[k], colliding)],
                     colliding, 1, activeBricks, sb)

RECURSIVE CollideLoop(_, _, _, _)
CollideLoop(w, k, activeBricks, sb) ==
  IF k > Len(w.s.balls) THEN w
  ELSE CollideLoop(CollideBall(w, k, activeBricks, sb), k + 1, activeBricks, sb)

(* The count of live bricks, then the collisions of every ball.            *)
BrickCollisions(w, sb) ==
  LET activeBricks == ActiveBricks(w.s)
  IN CollideLoop([w EXCEPT !.log.activeBricks = activeBricks], 1, activeBricks, sb)

----------------------------------------------------------------------------
(* Power-ups.                                                              *)

POWERUP_TYPES ==
  {"perm_damage", "temp_damage", "debuff_damage", "paddle_shrink", "paddle_grow",
   "extra_life", "shield", "fast_ball", "second_ball", "double_points"}

SecondBallLaunched(s, lv) ==
  IF Len(s.balls) < 2
  THEN [s EXCEPT !.balls = Append(@, NewBall(s.paddle.x + s.paddle.width \div 2,
                                             s.paddle.y - 1000 - 200, 0, -lv.ballSpeed))]
  ELSE s

SecondBall(s, lv) ==
  IF Len(s.balls) < 2
  THEN LET firstBall == s.balls[1]
           x == s.paddle.x + s.paddle.width \div 2
           y == s.paddle.y - 1000 - 200
       IN IF firstBall.dx = 0 /\ firstBall.dy = 0
          THEN [s EXCEPT !.balls = Append(@, NewBall(x, y, 0, 0))]
          ELSE [s EXCEPT !.balls = Append(@, NewBall(x, y, 0, -lv.ballSpeed))]
  ELSE s

ExtraLifeUncapped(w) ==
  [w EXCEPT !.s.lives = @ + 1, !.log.lives = Append(@, w.s.lives + 1)]

(* case EXTRA_LIFE.                                                        *)
ExtraLife(w) ==
  IF w.s.lives < MaxLives
  THEN [w EXCEPT !.s.lives = @ + 1, !.log.lives = Append(@, w.s.lives + 1)]
  ELSE w

TempDamageWithoutTimer(w) ==
  [w EXCEPT !.log.cleared = @ + (IF w.s.damageBonus > 0 THEN 1 ELSE 0),
            !.s.damageBonus = 0,
            !.s.tempDamage = 1]

TempDamageKeepingBonus(w) ==
  [w EXCEPT !.s.tempDamage = 1, !.s.tempDamageTimer = 20 * Fps]

(* case TEMP_DAMAGE.                                                       *)
TempDamage(w) ==
  [w EXCEPT !.log.cleared = @ + (IF w.s.damageBonus > 0 THEN 1 ELSE 0),
            !.s.damageBonus = 0,
            !.s.tempDamage = 1,
            !.s.tempDamageTimer = 20 * Fps]

ApplyPowerupAdding(w, type, lv) ==
  LET s == w.s
      w1 == [w EXCEPT !.log.pickups = Append(@, type)]
  IN CASE type = "perm_damage" -> [w1 EXCEPT !.s.damageBonus = @ + 1]
       [] type = "temp_damage" -> [TempDamage(w1) EXCEPT !.s.tempDamageTimer = @ + s.tempDamageTimer]
       [] type = "paddle_shrink" ->
            [w1 EXCEPT !.s.paddleSizeMultiplier = 8, !.s.paddleSizeTimer = @ + 10 * Fps]
       [] type = "paddle_grow" ->
            [w1 EXCEPT !.s.paddleSizeMultiplier = 13, !.s.paddleSizeTimer = @ + 20 * Fps]
       [] type = "extra_life" -> ExtraLife(w1)
       [] type = "shield" ->
            [w1 EXCEPT !.s.shieldActive = TRUE, !.s.shieldTimer = @ + 20 * Fps]
       [] type = "fast_ball" ->
            [w1 EXCEPT !.s.ballSpeedMultiplier = 15, !.s.ballSpeedTimer = @ + 10 * Fps]
       [] type = "second_ball" -> [w1 EXCEPT !.s = SecondBall(s, lv)]
       [] type = "debuff_damage" ->
            [w1 EXCEPT !.s.debuffDamage = 1, !.s.debuffDamageTimer = @ + 15 * Fps]
       [] type = "double_points" ->
            [w1 EXCEPT !.s.doublePointsActive = TRUE, !.s.doublePointsTimer = @ + 15 * Fps]

ApplyPowerupEffect(w, type, lv) ==
  LET s == w.s
      w1 == [w EXCEPT !.log.pickups = Append(@, type)]
  IN CASE type = "perm_damage" -> [w1 EXCEPT !.s.damageBonus = @ + 1]
       [] type = "temp_damage" -> TempDamage(w1)
       [] type = "paddle_shrink" ->
            [w1 EXCEPT !.s.paddleSizeMultiplier = 8,
                       !.s.paddleSizeTimer = 10 * Fps]
       [] type = "paddle_grow" ->
            [w1 EXCEPT !.s.paddleSizeMultiplier = 13,
                       !.s.paddleSizeTimer = 20 * Fps]
       [] type = "extra_life" -> ExtraLife(w1)
       [] type = "shield" ->
            [w1 EXCEPT !.s.shieldActive = TRUE,
                       !.s.shieldTimer = 20 * Fps]
       [] type = "fast_ball" ->
            [w1 EXCEPT !.s.ballSpeedMultiplier = 15,
                       !.s.ballSpeedTimer = 10 * Fps]
       [] type = "second_ball" -> [w1 EXCEPT !.s = SecondBall(s, lv)]
       [] type = "debuff_damage" ->
            [w1 EXCEPT !.s.debuffDamage = 1,
                       !.s.debuffDamageTimer = 15 * Fps]
       [] type = "double_points" ->
            [w1 EXCEPT !.s.doublePointsActive = TRUE,
                       !.s.doublePointsTimer = 15 * Fps]

PowerupNeverOnPaddle(s, p, paddleX, paddleWidth) == FALSE

PowerupOnPaddle(s, p, paddleX, paddleWidth) ==
  /\ p.y + PowerupReach > s.paddle.y
  /\ p.x > paddleX
  /\ p.x < paddleX + paddleWidth
  /\ p.y < s.paddle.y + s.paddle.height

RECURSIVE PowerupLoop(_, _, _, _, _)
PowerupLoop(w, i, paddleX, paddleWidth, lv) ==
  IF i < 1 THEN w
  ELSE
    LET p0 == w.s.powerups[i]
        p == [p0 EXCEPT !.y = @ + p0.speed]
    IN IF p.y > CanvasHeight
       THEN PowerupLoop([w EXCEPT !.s.powerups = RemoveAt(@, i),
                                  !.log.offScreen = @ + 1],
                        i - 1, paddleX, paddleWidth, lv)
       ELSE IF PowerupOnPaddle(w.s, p, paddleX, paddleWidth)
       THEN PowerupLoop([ApplyPowerupEffect(w, p.type, lv) EXCEPT
                           !.s.powerups = RemoveAt(@, i)],
                        i - 1, paddleX, paddleWidth, lv)
       ELSE PowerupLoop([w EXCEPT !.s.powerups[i] = p],
                        i - 1, paddleX, paddleWidth, lv)

UpdatePowerups(w, paddleX, paddleWidth, lv) ==
  PowerupLoop(w, Len(w.s.powerups), paddleX, paddleWidth, lv)

(* The power-ups dropped by the bricks destroyed in this frame: pu[j] is   *)
(* the draw for the j-th of them, a type or "none".                        *)
RECURSIVE DropLoop(_, _, _)
DropLoop(w, pu, j) ==
  IF j > Len(w.drops) THEN w
  ELSE DropLoop(IF j \in DOMAIN pu /\ pu[j] # "none"
                THEN [w EXCEPT !.s.powerups =
                        Append(@, [x |-> w.drops[j].x, y |-> w.drops[j].y,
                                   type |-> pu[j], speed |-> PowerupSpeed])]
                ELSE w,
                pu, j + 1)

DropPowerups(w, pu) == DropLoop(w, pu, 1)

----------------------------------------------------------------------------
(* Timers and the time ramp.                                               *)

NoReset(s) ==
  LET dec(t) == IF t > 0 THEN t - 1 ELSE t
  IN [s EXCEPT !.tempDamageTimer = dec(@), !.debuffDamageTimer = dec(@),
               !.paddleSizeTimer = dec(@), !.ballSpeedTimer = dec(@),
               !.shieldTimer = dec(@), !.doublePointsTimer = dec(@)]

(* "Update timers": each running timer loses 1 and resets its effect at 0. *)
UpdateTimers(s) ==
  LET dec(t) == IF t > 0 THEN t - 1 ELSE t
      out(t) == t > 0 /\ t - 1 <= 0
  IN [s EXCEPT
        !.tempDamageTimer = dec(@),
        !.tempDamage = IF out(s.tempDamageTimer) THEN 0 ELSE @,
        !.debuffDamageTimer = dec(@),
        !.debuffDamage = IF out(s.debuffDamageTimer) THEN 0 ELSE @,
        !.paddleSizeTimer = dec(@),
        !.paddleSizeMultiplier = IF out(s.paddleSizeTimer) THEN 10 ELSE @,
        !.ballSpeedTimer = dec(@),
        !.ballSpeedMultiplier = IF out(s.ballSpeedTimer) THEN 10 ELSE @,
        !.shieldTimer = dec(@),
        !.shieldActive = IF out(s.shieldTimer) THEN FALSE ELSE @,
        !.doublePointsTimer = dec(@),
        !.doublePointsActive = IF out(s.doublePointsTimer) THEN FALSE ELSE @]

(* timeSpeedMultiplier < 1.5, timeSpeedMultiplier > 1.5 on the doubles.    *)
BelowCap(s) ==
  \/ s.timeSpeedMultiplier < RampCap
  \/ s.timeSpeedMultiplier = RampCap /\ s.timeSpeedUlps < RampCapUlps
AboveCap(s) ==
  \/ s.timeSpeedMultiplier > RampCap
  \/ s.timeSpeedMultiplier = RampCap /\ s.timeSpeedUlps > RampCapUlps

UpdateTimeRamp(s) ==
  LET timeElapsed == s.timeElapsed + 1
      ramp == timeElapsed % RampPeriod = 0 /\ BelowCap(s)
  IN [s EXCEPT !.timeElapsed = timeElapsed,
               !.timeSpeedMultiplier = IF ramp THEN @ + RampStep ELSE @,
               !.timeSpeedUlps = IF ramp THEN @ + RampStepUlps ELSE @]

----------------------------------------------------------------------------
(* Win, boss battle and boss destruction.                                  *)

StartBossBattle(s, lv) ==
  [s EXCEPT !.boss = <<[x |-> CanvasWidth \div 2, y |-> 10000,
                        health |-> lv.id, maxHealth |-> lv.id,
                        shape |-> ((lv.id - 1) \div 5) % 6,
                        moveTimer |-> 0, directionX |-> 1, directionY |-> 1]>>,
            !.bossActive = TRUE]

WinWithoutBoss(w, lv) ==
  IF w.log.activeBricks # 0 \/ w.s.bossActive THEN w
  ELSE [EndRun(w, TRUE) EXCEPT !.ret = TRUE]

(* "Check win condition", with the count of live bricks of this frame.     *)
WinCheck(w, lv) ==
  IF w.log.activeBricks # 0 THEN w
  ELSE IF IsBossLevel(lv) /\ ~w.s.bossActive
       THEN [w EXCEPT !.s = StartBossBattle(w.s, lv), !.log.startedBoss = TRUE]
       ELSE IF ~w.s.bossActive
            THEN [EndRun(w, TRUE) EXCEPT !.ret = TRUE]
            ELSE w

RestartingCountdown(w) ==
  LET s0 == w.s
      timer0 == IF s0.bossActive /\ Len(s0.boss) > 0 /\ s0.boss[1].health <= 0
                THEN BossCountdown ELSE s0.bossDestructionTimer
  IN IF timer0 > 0
     THEN LET w1 == [w EXCEPT !.s.bossDestructionTimer = timer0 - 1]
          IN IF timer0 - 1 <= 0 THEN [EndRun(w1, TRUE) EXCEPT !.ret = TRUE] ELSE w1
     ELSE w

(* "Check boss defeat" and "Update boss destruction timer".                *)
BossDefeat(w) ==
  LET s0 == w.s
      timer0 == IF /\ s0.bossActive /\ Len(s0.boss) > 0
                   /\ s0.boss[1].health <= 0 /\ s0.bossDestructionTimer = 0
                THEN BossCountdown ELSE s0.bossDestructionTimer
  IN IF timer0 > 0
     THEN LET w1 == [w EXCEPT !.s.bossDestructionTimer = timer0 - 1]
          IN IF timer0 - 1 <= 0 THEN [EndRun(w1, TRUE) EXCEPT !.ret = TRUE] ELSE w1
     ELSE w

----------------------------------------------------------------------------
(* gameLoop.  rnd holds what the frame draws from outside the state:       *)
(*   horizontalOffset  the brick oscillation, from the wall clock          *)
(*   fire              Math.random() < 0.02 for the mini-boss fireball     *)
(*   sb                the draw of spawnSmallBoss                          *)
(*   pu                the power-up draw of every destroyed brick          *)

(* From the top of the frame to the collisions of the balls with bricks.   *)
FrameHead(s, lv, rnd) ==
  LET s1 == PinBalls(MovePaddle(s))
      paddleWidth == EffectiveWidth(s1)
      paddleX == PaddleX(s1)
      s2 == MoveBalls(s1)
      s3 == IF s2.bossActive /\ Len(s2.boss) > 0 THEN UpdateBossMovement(s2) ELSE s2
      s4 == IF SmallBossActive(s3) THEN UpdateSmallBoss(s3) ELSE s3
      w5 == IF IsBossLevel(lv) THEN UpdateBrickMovement(Work(s4), rnd.horizontalOffset)
            ELSE Work(s4)
      w6 == UpdateFireballs(w5, paddleX, paddleWidth)
      w7 == [w6 EXCEPT !.s = BallCollisions(SmallBossFire(w6.s, rnd.fire),
                                            paddleX, paddleWidth)]
      w8 == BallLoss(w7)
  IN IF w8.ret THEN w8 ELSE BrickCollisions(w8, rnd.sb)

(* From the power-up drops to the end of the frame.                        *)
FrameTail(w, lv, rnd, paddleX, paddleWidth) ==
  LET w1 == DropPowerups(w, rnd.pu)
      w2 == [w1 EXCEPT !.s = UpdateTimeRamp(UpdateTimers(w1.s))]
      w3 == UpdatePowerups(w2, paddleX, paddleWidth, lv)
      w4 == WinCheck(w3, lv)
  IN IF w4.ret THEN w4 ELSE BossDefeat(w4)

GameLoop(s, lv, rnd) ==
  IF Halted(s) THEN Work(s)
  ELSE LET head == FrameHead(s, lv, rnd)
           s1 == MovePaddle(s)
       IN IF head.ret THEN head
          ELSE FrameTail(head, lv, rnd, PaddleX(s1), EffectiveWidth(s1))

----------------------------------------------------------------------------
(* Input handlers.                                                         *)

HandleKeyDown(s, key) ==
  LET s1 == IF key = "Escape" THEN [s EXCEPT !.isPaused = ~s.isPaused] ELSE s
      s2 == IF key = "ArrowLeft" THEN [s1 EXCEPT !.keys.left = TRUE] ELSE s1
  IN IF key = "ArrowRight" THEN [s2 EXCEPT !.keys.right = TRUE] ELSE s2

HandleKeyUp(s, key) ==
  LET s1 == IF key = "ArrowLeft" THEN [s EXCEPT !.keys.left = FALSE] ELSE s
  IN IF key = "ArrowRight" THEN [s1 EXCEPT !.keys.right = FALSE] ELSE s1

(* handleMouseMove and handleTouchMove: x is the pointer in canvas units.  *)
HandleMouseMove(s, x) == [s EXCEPT !.mouseX = x]

HandleClickWhilePaused(s, lv) ==
  IF s.waitingForLaunch
  THEN [s EXCEPT
          !.balls = [k \in 1..Len(s.balls) |->
                       IF k = 1 \/ (k = 2 /\ s.balls[k].dx = 0 /\ s.balls[k].dy = 0)
                       THEN [s.balls[k] EXCEPT !.dx = 0, !.dy = -lv.ballSpeed]
                       ELSE s.balls[k]],
          !.waitingForLaunch = FALSE]
  ELSE s

HandleClick(s, lv) ==
  IF s.waitingForLaunch /\ ~s.isPaused
  THEN [s EXCEPT
          !.balls = [k \in 1..Len(s.balls) |->
                       IF k = 1 \/ (k = 2 /\ s.balls[k].dx = 0 /\ s.balls[k].dy = 0)
                       THEN [s.balls[k] EXCEPT !.dx = 0, !.dy = -lv.ballSpeed]
                       ELSE s.balls[k]],
          !.waitingForLaunch = FALSE]
  ELSE s

(* The pause button: it writes the negation of the component's isPaused    *)
(* into the game state.                                                    *)
HandlePauseToggle(s, paused) == [s EXCEPT !.isPaused = ~paused]

----------------------------------------------------------------------------
(* Bounds of the exploration and the draws offered to a frame.             *)

MaxFrames == 12
ShortFrames == 8
BossFrames == 130
MaxInputs == 1
EffectFrames == 1205
MaxFireballs == 1
MaxPowerups == 1

Keys == {"Escape", "ArrowLeft", "ArrowRight"}
MouseXs == {0, 20000, 60000}
HorizontalOffsets == {-3500, 0, 3500}
SmallBossDraws ==
  {[direction |-> d, y |-> y, speed |-> v] :
     d \in {1, -1}, y \in {36000, 84000}, v \in {250}}
NoDraw == [horizontalOffset |-> 0, fire |-> FALSE,
           sb |-> [direction |-> 1, y |-> 36000, speed |-> 200], pu |-> <<>>]

(* The draws that matter in the frame that starts in s: each is offered    *)
(* only where the frame reads it.                                          *)
HorizontalDraws(s, lv) ==
  IF IsBossLevel(lv) /\ ~Halted(s) THEN HorizontalOffsets ELSE {0}
FireDraws(probe, s) ==
  IF ~Halted(s) /\ ~probe.ret /\ SmallBossActive(probe.s)
     /\ Len(probe.s.fireballs) < MaxFireballs
  THEN BOOLEAN ELSE {FALSE}
SpawnDraws(probe) ==
  IF probe.log.spawnedSmallBoss > 0 THEN SmallBossDraws ELSE {NoDraw.sb}
PowerupDraws(probe) ==
  [1..Min(Len(probe.drops), Max(0, MaxPowerups - Len(probe.s.powerups))) ->
     POWERUP_TYPES \cup {"none"}]

----------------------------------------------------------------------------
(* The state machine.                                                      *)

(* A run of level lv after timeElapsed frames in which the bricks of       *)
(* broken were destroyed (by damage 1, without double score): the ball is  *)
(* in play, the clock and the time ramp have advanced, the score is that   *)
(* of the destroyed bricks.                                                *)
RECURSIVE SumPoints(_, _)
SumPoints(bricks, ks) ==
  IF ks = {} THEN 0
  ELSE LET k == CHOOSE i \in ks : TRUE
       IN BrickScore * bricks[k].maxHits + SumPoints(bricks, ks \ {k})

Played(lv, broken, timeElapsed, balls) ==
  LET s == InitialState(lv)
  IN [s EXCEPT
        !.bricks = [k \in 1..Len(s.bricks) |->
                      IF k \in broken THEN [s.bricks[k] EXCEPT !.hits = 0]
                      ELSE s.bricks[k]],
        !.score = SumPoints(s.bricks, broken),
        !.timeElapsed = timeElapsed,
        !.timeSpeedMultiplier = Min(RampCap, 100 + RampStep * (timeElapsed \div RampPeriod)),
        !.timeSpeedUlps = RampStepUlps * Min(10, timeElapsed \div RampPeriod),
        !.waitingForLaunch = FALSE,
        !.balls = balls]

(* A mini-boss that crossed the field from the left and left it.           *)
SmallBossGone ==
  <<[x |-> CanvasWidth + 5200, y |-> 36000, direction |-> 1, speed |-> 200,
     active |-> FALSE, spawned |-> TRUE]>>

(* The paddle under the pointer at mouseX.                                 *)
PaddleAt(s, mouseX) == MovePaddle([s EXCEPT !.mouseX = mouseX])

(* Last lives: level 1 with the top row left, a ball that has passed the   *)
(* paddle and a mini-boss fireball above the paddle.                       *)
LastLives ==
  {[PaddleAt(Played(Level1, 7..24, 3000, <<NewBall(10000, ballY, -274, 539)>>), 40000)
      EXCEPT !.smallBoss = SmallBossGone,
             !.score = @ + IF smallBossHit THEN SmallBossBonus ELSE 0,
             !.fireballs = [k \in 1..Len(fireballYs) |->
                              [x |-> 40000, y |-> fireballYs[k], dx |-> 0,
                               dy |-> SmallBossFireballSpeed, color |-> "#ff0000"]],
             !.lives = lives,
             !.shieldActive = shield,
             !.shieldTimer = IF shield THEN 20 * Fps - 10 ELSE 0] :
     ballY \in {119500, 120200},
     fireballYs \in {<<98750>>, <<98500>>, <<98750, 98500>>, <<98500, 98700>>},
     lives \in {1, 2},
     shield \in BOOLEAN,
     smallBossHit \in {FALSE}}

(* A fireball falling straight onto the paddle from height y.              *)
FallingFireball(x, y, speed, color) ==
  [x |-> x, y |-> y, dx |-> 0, dy |-> speed, color |-> color]

(* Last bricks: level 1 with a few bricks of the top row left and the ball *)
(* between them and the top wall.                                          *)
LastBricks ==
  {[Played(Level1, (1..24) \ live, 3000, <<NewBall(ballX, 2500, 489, 355)>>)
      EXCEPT !.smallBoss = IF Cardinality(live) < 7 THEN SmallBossGone ELSE <<>>] :
     live \in {{1}, {1, 2}, {1, 2, 3, 4, 5, 6, 7, 12}, {1, 2, 3, 4, 5, 6, 12}},
     ballX \in {3000, 6000}}

(* The last brick of level 1 and a mini-boss fireball above the paddle.    *)
LastBrickUnderFire ==
  {[Played(Level1, 2..24, 3000, <<NewBall(3000, 2500, 489, 355)>>)
      EXCEPT !.smallBoss = SmallBossGone,
             !.fireballs = <<FallingFireball(40000, fireballY,
                                             SmallBossFireballSpeed, "#ff0000")>>,
             !.lives = lives] :
     fireballY \in {98500, 98750}, lives \in {1, 2}}

(* Level 5 after timeElapsed frames, one second of them before the launch: *)
(* the bricks have come down and stand at the horizontal offset of the     *)
(* last frame.                                                             *)
Descended(s, horizontalOffset) ==
  LET offset == BrickDescent * (s.timeElapsed - Fps)
  IN [s EXCEPT
        !.brickVerticalOffset = offset,
        !.smallBoss = SmallBossGone,
        !.bricks = [k \in 1..Len(s.bricks) |->
                      [s.bricks[k] EXCEPT
                         !.originalX = s.bricks[k].x,
                         !.originalY = s.bricks[k].y,
                         !.x = @ + horizontalOffset,
                         !.y = @ + (offset - BrickDescent) \div 10]]]

(* The last brick of level 5 with the ball right under it.                 *)
LastBrick5 ==
  {[Descended(Played(Level5, (1..42) \ {4}, 3600, <<NewBall(40000, 24000, 0, -625)>>), 0)
      EXCEPT !.damageBonus = damageBonus] :
     damageBonus \in {0, 1}}

(* The boss after frames calls of updateBossMovement from its start, for  *)
(* frames <= 100: it has not yet turned nor fired.                         *)
BossAfter(s, frames) ==
  [s EXCEPT !.boss[1].moveTimer = frames,
            !.boss[1].x = @ + 200 * frames,
            !.boss[1].y = @ + 100 * frames]

(* Boss battle: the bricks of level 5 are gone, the boss has been hit down *)
(* to health and the ball comes up under it.                               *)
BossFight ==
  {[BossAfter(StartBossBattle(
       PaddleAt(Descended(Played(Level5, 1..42, 3600,
                                 <<NewBall(61000, 30000, 0, -625)>>), 0), mouseX),
       Level5), 100)
      EXCEPT !.boss[1].health = health,
             !.lives = lives] :
     health \in {1, 2}, mouseX \in {61000, 20000}, lives \in {1, 3}}

(* Boss fight with two balls: the second ball follows the first one, which *)
(* takes the last health of the boss.                                      *)
BossFightTwoBalls ==
  {[BossAfter(StartBossBattle(
       PaddleAt(Descended(Played(Level5, 1..42, 3600,
                                 <<NewBall(61000, 30000, 0, -625),
                                   NewBall(61000, 31000, 0, -625)>>), 0), 61000),
       Level5), 100)
      EXCEPT !.boss[1].health = 1,
             !.damageBonus = damageBonus] :
     damageBonus \in {0, 1}}

(* Destruction countdown: the boss of level 5 is exploding and its         *)
(* fireballs reach the paddle.                                             *)
Countdown ==
  {[BossAfter(StartBossBattle(
       PaddleAt(Descended(Played(Level5, 1..42, 3600,
                                 <<NewBall(61000, 30000, 283, 556)>>), 0), 40000),
       Level5), 100)
      EXCEPT !.boss[1].health = 0,
             !.bossDestructionTimer = timer,
             !.fireballs = [k \in 1..Len(fireballYs) |->
                              FallingFireball(40000, fireballYs[k],
                                              BossFireballSpeed, "#ffaa00")],
             !.lives = lives,
             !.shieldActive = shield,
             !.shieldTimer = IF shield THEN 20 * Fps - 10 ELSE 0] :
     timer \in {2, 4},
     fireballYs \in {<<98700>>, <<98700, 98400>>},
     lives \in {1, 2},
     shield \in BOOLEAN}

(* Descent: level 5 after almost six minutes, the left brick of the bottom *)
(* row still alive and about to come level with the paddle, whose left     *)
(* edge stands 3 px inside the brick's right edge.                         *)
BrickOnPaddle ==
  {[PaddleAt(Descended(Played(Level5, (1..42) \ {36}, 21059,
                              <<NewBall(60000, 50000, 283, -556)>>), horizontalOffset),
             mouseX)
      EXCEPT !.lives = lives,
             !.shieldActive = shield,
             !.shieldTimer = IF shield THEN 20 * Fps - 10 ELSE 0] :
     horizontalOffset \in HorizontalOffsets,
     mouseX \in {21528},
     lives \in {1, 3},
     shield \in BOOLEAN}

(* Effects: level 7 untouched, the ball coming up under the gap between    *)
(* the two left bricks of the bottom row (maxHits 2), with the damage,     *)
(* debuff and double-score effects picked up or not.                       *)
Effects ==
  {[Played(Level7, {}, 300, <<NewBall(13928, 40000, 0, -635)>>)
      EXCEPT !.damageBonus = damage[1],
             !.tempDamage = damage[2],
             !.tempDamageTimer = IF damage[2] > 0 THEN 10 * Fps ELSE 0,
             !.debuffDamage = debuffDamage,
             !.debuffDamageTimer = IF debuffDamage > 0 THEN 10 * Fps ELSE 0,
             !.doublePointsActive = doublePoints,
             !.doublePointsTimer = IF doublePoints THEN 10 * Fps ELSE 0] :
     damage \in {<<0, 0>>, <<1, 0>>, <<0, 1>>}, debuffDamage \in {0, 1},
     doublePoints \in BOOLEAN}

(* The same on level 26, whose bottom rows have maxHits 3: the ball rises  *)
(* under the middle of one brick and reaches it in the third tick, with    *)
(* double score off, running, or running out in that very tick.            *)
Effects26 ==
  {[Played(Level26, {}, 300, <<NewBall(17000, 56500, 0, -748)>>)
      EXCEPT !.damageBonus = damageBonus,
             !.doublePointsActive = doublePointsTimer > 0,
             !.doublePointsTimer = doublePointsTimer] :
     damageBonus \in {0, 2}, doublePointsTimer \in {0, 3, 10 * Fps}}

(* Pickups: level 1 with one or two power-ups falling onto the paddle.     *)
FallingPowerup(brick, fallen, type) ==
  [x |-> brick.x + brick.width \div 2,
   y |-> brick.y + brick.height \div 2 + PowerupSpeed * fallen,
   type |-> type,
   speed |-> PowerupSpeed]

Pickups ==
  {[Played(Level1, 7..24, 3000, <<NewBall(60000, 60000, 0, -605)>>)
      EXCEPT !.smallBoss = SmallBossGone,
             !.powerups =
               LET bricks == MakeBricks(Level1)
               IN IF second = "none" THEN <<FallingPowerup(bricks[10], 427, first)>>
                  ELSE <<FallingPowerup(bricks[10], 427, first),
                         FallingPowerup(bricks[16], 398, second)>>,
             !.lives = lives,
             !.damageBonus = damageBonus] :
     first \in POWERUP_TYPES, second \in {"none", "perm_damage", "temp_damage"},
     lives \in {2, 3}, damageBonus \in {0, 2}}

(* One brick: level 1 with the first and the last brick of the top row     *)
(* left, the ball about to reach the first one at its lower right corner   *)
(* with equal penetrations, from below, or from the right.                 *)
OneBrick ==
  {[Played(Level1, (2..24) \ {6}, 3000, <<ball>>) EXCEPT !.smallBoss = SmallBossGone] :
     ball \in {NewBall(16901, 11235, -428, -428),
               NewBall(10000, 11500, 0, -605),
               NewBall(17200, 8000, -489, 355)}}

(* Ramp: level 1 with the ball back on the paddle, two frames before the   *)
(* first, the ninth and the tenth ramp step.                               *)
RampTimes == {RampPeriod * n - 2 : n \in {1, 9, 10}}
Ramp ==
  {[RespawnBall(Played(Level1, 7..24, timeElapsed, <<>>))
      EXCEPT !.smallBoss = SmallBossGone] : timeElapsed \in RampTimes}

(* Mini-boss: level 1 with the mini-boss crossing the middle of the field  *)
(* and one ball or two balls about to reach its hit-box, or one reaching   *)
(* it and one away from it, with and without double score.                 *)
MiniBoss ==
  {[Played(Level1, 7..24, 3000, balls)
      EXCEPT !.smallBoss = <<[x |-> 39800, y |-> 36000, direction |-> 1, speed |-> 200,
                              active |-> TRUE, spawned |-> TRUE]>>,
             !.doublePointsActive = double,
             !.doublePointsTimer = IF double THEN 10 * Fps - 10 ELSE 0] :
     balls \in {<<NewBall(40000, 33000, 0, 605)>>,
                <<NewBall(40000, 33000, 0, 605), NewBall(40500, 39000, 0, -605)>>,
                <<NewBall(40000, 33000, 0, 605), NewBall(60000, 60000, 0, -605)>>,
                <<NewBall(35000, 30000, 428, 428)>>},
     double \in BOOLEAN}

(* Crossing: level 1 with the ball on the paddle and the mini-boss about   *)
(* to leave the field on the side opposite to its entry, at its slowest    *)
(* and at its fastest.                                                     *)
Crossing ==
  {[RespawnBall(Played(Level1, 7..24, 3000, <<>>))
      EXCEPT !.smallBoss = <<[x |-> IF direction = 1 THEN CanvasWidth + 5000 - 700
                                    ELSE 700 - 5000,
                              y |-> 36000, direction |-> direction, speed |-> speed,
                              active |-> TRUE, spawned |-> TRUE]>>] :
     direction \in {1, -1}, speed \in {200, 300}}

(* Same brick: level 1 with the first and the last brick of the top row    *)
(* left and two balls in play, both about to reach the first brick in the  *)
(* same tick, or one after the other, with and without double score.       *)
SameBrick ==
  {[Played(Level1, (2..24) \ {6}, 3000, <<NewBall(8000, 11500, 0, -605), other>>)
      EXCEPT !.smallBoss = SmallBossGone,
             !.doublePointsActive = double,
             !.doublePointsTimer = IF double THEN 10 * Fps - 10 ELSE 0] :
     other \in {NewBall(11000, 11500, 0, -605), NewBall(11000, 12500, 0, -605)},
     double \in BOOLEAN}

(* Second ball: level 1 with a SECOND_BALL power-up about to reach the     *)
(* paddle, with the ball on the paddle, with one ball in play and with two *)
(* balls in play.                                                          *)
SecondBalls ==
  {[s EXCEPT !.smallBoss = SmallBossGone,
             !.powerups = <<FallingPowerup(MakeBricks(Level1)[10], 427, "second_ball")>>] :
     s \in {RespawnBall(Played(Level1, 7..24, 3000, <<>>)),
            Played(Level1, 7..24, 3000, <<NewBall(60000, 60000, 0, -605)>>),
            Played(Level1, 7..24, 3000, <<NewBall(60000, 60000, 0, -605),
                                          NewBall(20000, 70000, 274, -539)>>)}}

(* Launch: level 1 with one ball or two balls on the paddle awaiting the   *)
(* launch, or with a ball in play, the game paused or not.                 *)
Launches ==
  {[s EXCEPT !.smallBoss = SmallBossGone, !.isPaused = paused] :
     s \in {RespawnBall(Played(Level1, 7..24, 3000, <<>>)),
            SecondBall(RespawnBall(Played(Level1, 7..24, 3000, <<>>)), Level1),
            Played(Level1, 7..24, 3000, <<NewBall(60000, 60000, 274, -539)>>)},
     paused \in BOOLEAN}

(* Beside the paddle: level 5 after almost six minutes, the third brick of *)
(* the bottom row still alive and about to come level with the paddle,     *)
(* whose right edge stands 2 px to the left of the brick's left edge.      *)
BrickBesidePaddle ==
  {PaddleAt(Descended(Played(Level5, (1..42) \ {38}, 21059,
                             <<NewBall(60000, 50000, 283, -556)>>), horizontalOffset),
            16256) :
     horizontalOffset \in HorizontalOffsets}

(* Falling: level 1 with a ball in flight, a fireball and a power-up       *)
(* falling beside the paddle, about to pass the bottom of the field, or    *)
(* over the paddle, about to reach it.                                     *)
Falling ==
  {[Played(Level1, 7..24, 3000, <<NewBall(60000, 60000, 0, -605)>>)
      EXCEPT !.smallBoss = SmallBossGone,
             !.fireballs = <<FallingFireball(place[1], place[2],
                                             SmallBossFireballSpeed, "#ff0000")>>,
             !.powerups = <<FallingPowerup(MakeBricks(Level1)[place[3]], place[4],
                                           "double_points")>>] :
     place \in {<<10000, 119400, 7, 534>>, <<40000, 98400, 10, 426>>,
                <<10000, 119400, 10, 426>>}}

(* Held key: level 1 before the launch, played with the keyboard only, an  *)
(* arrow key held down since the mount for steps ticks.                    *)
HeldKey ==
  {PinBalls([InitialState(Level1)
      EXCEPT !.keys = [left |-> held[1] = "ArrowLeft", right |-> held[1] = "ArrowRight"],
             !.paddle.x = IF held[1] = "ArrowLeft" THEN @ - held[2] * PaddleSpeed
                          ELSE @ + held[2] * PaddleSpeed,
             !.timeElapsed = held[2]]) :
     held \in {<<"ArrowLeft", 40>>, <<"ArrowRight", 38>>}}

(* Timed effects: level 1 after a lost ball, the new ball still on the     *)
(* paddle, and one power-up with a timer falling onto the paddle.          *)
TimedTypes ==
  {"temp_damage", "debuff_damage", "paddle_shrink", "paddle_grow", "fast_ball",
   "double_points", "shield"}

Timed ==
  {[RespawnBall(Played(Level1, 7..24, 3000, <<>>))
      EXCEPT !.smallBoss = SmallBossGone,
             !.powerups = <<FallingPowerup(MakeBricks(Level1)[10], 427, type)>>,
             !.lives = 2,
             !.damageBonus = 2] :
     type \in TimedTypes}

(* Two balls: level 1 with a second ball in play, one ball about to leave  *)
(* the field and the other in flight, leaving with it or leaving later.    *)
TwoBalls ==
  {[Played(Level1, 7..24, 3000, <<NewBall(10000, 120200, -274, 539), other>>)
      EXCEPT !.smallBoss = SmallBossGone,
             !.lives = lives,
             !.shieldActive = shield,
             !.shieldTimer = IF shield THEN 20 * Fps - 10 ELSE 0] :
     other \in {NewBall(60000, 60000, 0, -605),
                NewBall(20000, 120200, 274, 539),
                NewBall(20000, 119500, 274, 539)},
     lives \in {1, 2},
     shield \in BOOLEAN}

(* Walls: level 1 with the ball running into a wall or into a corner.      *)
Walls ==
  {[Played(Level1, 7..24, 3000, <<ball>>) EXCEPT !.smallBoss = SmallBossGone] :
     ball \in {NewBall(2000, 2000, -428, -428),
               NewBall(78000, 2000, 428, -428),
               NewBall(40000, 2500, 0, -605),
               NewBall(2500, 50000, -489, 355),
               NewBall(78000, 50000, 489, 355)}}

(* Repeat: level 1 with the ball on the paddle and two timed power-ups     *)
(* about to reach the paddle one after the other: twice the same type, or  *)
(* PADDLE_SHRINK and PADDLE_GROW in either order, these a tick later.      *)
Repeat ==
  {[RespawnBall(Played(Level1, 7..24, 3000, <<>>))
      EXCEPT !.smallBoss = SmallBossGone,
             !.powerups = <<FallingPowerup(MakeBricks(Level1)[10], 427, pair[1]),
                            FallingPowerup(MakeBricks(Level1)[16], pair[3], pair[2])>>] :
     pair \in {<<type, type, 398>> : type \in TimedTypes}
                \cup {<<"paddle_shrink", "paddle_grow", 397>>,
                      <<"paddle_grow", "paddle_shrink", 397>>}}

Scenario(lv, s, frames, inputs) ==
  /\ level = lv
  /\ state = s
  /\ isPaused = FALSE
  /\ calls = <<>>
  /\ tick = NoLog("mount")
  /\ fuel = [frames |-> frames, inputs |-> inputs]

InitMount == \E lv \in {Level1, Level5} : Scenario(lv, InitialState(lv), MaxFrames, MaxInputs)
InitLastLives == \E s \in LastLives : Scenario(Level1, s, ShortFrames, MaxInputs)
InitLastBricks == \E s \in LastBricks \cup LastBrickUnderFire : Scenario(Level1, s, 2 * ShortFrames, 0)
InitLastBrick5 == \E s \in LastBrick5 : Scenario(Level5, s, ShortFrames, 0)
InitBossFight == \E s \in BossFight : Scenario(Level5, s, BossFrames, 0)
InitBossFightTwoBalls == \E s \in BossFightTwoBalls : Scenario(Level5, s, ShortFrames, 0)
InitCountdown == \E s \in Countdown : Scenario(Level5, s, ShortFrames, MaxInputs)
InitBrickOnPaddle == \E s \in BrickOnPaddle : Scenario(Level5, s, ShortFrames, MaxInputs)

InitEffects == \E s \in Effects : Scenario(Level7, s, ShortFrames, 0)
InitEffects26 ==
  \E s \in Effects26 :
    Scenario(Level26, s, ShortFrames,
             IF s.damageBonus = 2 /\ s.doublePointsTimer = 3 THEN MaxInputs ELSE 0)
InitPickups == \E s \in Pickups : Scenario(Level1, s, ShortFrames, 0)
InitHeldKey == \E s \in HeldKey : Scenario(Level1, s, ShortFrames, MaxInputs)
InitOneBrick == \E s \in OneBrick : Scenario(Level1, s, ShortFrames, MaxInputs)
InitRamp ==
  \E s \in Ramp :
    Scenario(Level1, s, ShortFrames,
             IF s.timeElapsed = RampPeriod * 10 - 2 THEN MaxInputs ELSE 0)
InitMiniBoss ==
  \E s \in MiniBoss :
    Scenario(Level1, s, ShortFrames,
             IF Len(s.balls) = 2 /\ s.balls[2].y = 39000 /\ s.doublePointsActive
             THEN MaxInputs ELSE 0)
InitCrossing ==
  \E s \in Crossing :
    Scenario(Level1, s, ShortFrames,
             IF s.smallBoss[1].direction = -1 /\ s.smallBoss[1].speed = 200
             THEN MaxInputs ELSE 0)
InitSameBrick ==
  \E s \in SameBrick :
    Scenario(Level1, s, ShortFrames,
             IF s.balls[2].y = 11500 /\ s.doublePointsActive THEN MaxInputs ELSE 0)
InitSecondBalls ==
  \E s \in SecondBalls :
    Scenario(Level1, s, ShortFrames, IF s.waitingForLaunch THEN MaxInputs ELSE 0)
InitLaunches ==
  \E s \in Launches :
    /\ level = Level1
    /\ state = s
    /\ isPaused = s.isPaused
    /\ calls = <<>>
    /\ tick = NoLog("mount")
    /\ fuel = [frames |-> ShortFrames, inputs |-> MaxInputs]
InitRepeat ==
  \E s \in Repeat :
    Scenario(Level1, s, ShortFrames,
             IF s.powerups[1].type = "paddle_shrink" /\ s.powerups[2].type = "paddle_grow"
             THEN MaxInputs ELSE 0)
InitBrickBesidePaddle == \E s \in BrickBesidePaddle : Scenario(Level5, s, ShortFrames, 0)
InitFalling ==
  \E s \in Falling :
    Scenario(Level1, s, ShortFrames, IF s.fireballs[1].y = 98400 THEN MaxInputs ELSE 0)
InitTimed == \E s \in Timed : Scenario(Level1, s, EffectFrames, 0)
InitTwoBalls == \E s \in TwoBalls : Scenario(Level1, s, ShortFrames, 0)
InitWalls ==
  \E s \in Walls :
    Scenario(Level1, s, ShortFrames, IF s.balls[1].x = s.balls[1].y THEN MaxInputs ELSE 0)

Init ==
  \/ InitEffects
  \/ InitEffects26
  \/ InitPickups
  \/ InitTwoBalls
  \/ InitWalls
  \/ InitMount
  \/ InitHeldKey
  \/ InitOneBrick
  \/ InitRamp
  \/ InitMiniBoss
  \/ InitBossFightTwoBalls
  \/ InitLastLives
  \/ InitLastBricks
  \/ InitLastBrick5
  \/ InitBossFight
  \/ InitCountdown
  \/ InitBrickOnPaddle

Finish(w) ==
  /\ state' = w.s
  /\ calls' = calls \o w.log.calls
  /\ tick' = w.log
  /\ UNCHANGED <<level, isPaused>>

(* One call of gameLoop by requestAnimationFrame.                          *)
Tick ==
  /\ fuel.frames > 0
  /\ \E h \in HorizontalDraws(state, level) :
       LET probe == FrameHead(state, level, [NoDraw EXCEPT !.horizontalOffset = h])
       IN \E f \in FireDraws(probe, state), sb \in SpawnDraws(probe),
             pu \in PowerupDraws(probe) :
            Finish(GameLoop(state, level,
                            [horizontalOffset |-> h, fire |-> f, sb |-> sb, pu |-> pu]))
  /\ fuel' = IF Halted(state) THEN fuel ELSE [fuel EXCEPT !.frames = @ - 1]

Input(s) ==
  /\ fuel.inputs > 0
  /\ state' = s
  /\ fuel' = [fuel EXCEPT !.inputs = @ - 1]
  /\ UNCHANGED <<level, calls>>

KeyDown ==
  /\ \E key \in Keys :
       /\ Input(HandleKeyDown(state, key))
       /\ isPaused' = IF key = "Escape" THEN ~state.isPaused ELSE isPaused
  /\ tick' = NoLog("keydown")
KeyUp ==
  /\ \E key \in Keys : Input(HandleKeyUp(state, key))
  /\ tick' = NoLog("keyup")
  /\ UNCHANGED isPaused
MouseMove ==
  /\ \E x \in MouseXs : Input(HandleMouseMove(state, x))
  /\ tick' = NoLog("mousemove")
  /\ UNCHANGED isPaused
Click ==
  /\ Input(HandleClick(state, level))
  /\ tick' = NoLog("click")
  /\ UNCHANGED isPaused
PauseToggle ==
  /\ Input(HandlePauseToggle(state, isPaused))
  /\ tick' = NoLog("pause")
  /\ isPaused' = ~isPaused

Next == Tick \/ KeyDown \/ KeyUp \/ MouseMove \/ Click \/ PauseToggle

Spec == Init /\ [][Next]_vars
SpecLastLives == InitLastLives /\ [][Next]_vars
SpecLastBricks == (InitMount \/ InitLastBricks) /\ [][Next]_vars
SpecBoss ==
  (InitLastBrick5 \/ InitBossFight \/ InitBossFightTwoBalls \/ InitCountdown
     \/ InitBrickOnPaddle) /\ [][Next]_vars

SpecEffects == (InitEffects \/ InitEffects26 \/ InitPickups) /\ [][Next]_vars
SpecPaddle == InitHeldKey /\ [][Next]_vars
SpecBounce == InitOneBrick /\ [][Next]_vars
SpecRamp == (InitMount \/ InitRamp) /\ [][Next]_vars
SpecMiniBoss == InitMiniBoss /\ [][Next]_vars
SpecCrossing == (InitCrossing \/ InitMiniBoss \/ InitLastBricks) /\ [][Next]_vars
SpecBricks == (InitSameBrick \/ InitEffects26) /\ [][Next]_vars
SpecSecondBall == InitSecondBalls /\ [][Next]_vars
SpecLaunch == InitLaunches /\ [][Next]_vars
SpecRepeat == InitRepeat /\ [][Next]_vars
SpecDescent ==
  (InitBrickBesidePaddle \/ InitBrickOnPaddle \/ InitLastLives) /\ [][Next]_vars
SpecFalling == (InitFalling \/ InitCrossing \/ InitLastLives) /\ [][Next]_vars
SpecTimers == (InitTimed \/ InitPickups \/ InitEffects26) /\ [][Next]_vars
SpecBalls == (InitTwoBalls \/ InitWalls) /\ [][Next]_vars
SpecShield == (InitLastLives \/ InitCountdown) /\ [][Next]_vars
SpecBossStart ==
  (InitLastBricks \/ InitLastBrick5 \/ InitBossFight \/ InitCountdown) /\ [][Next]_vars

----------------------------------------------------------------------------
(* Properties.                                                             *)

Won == \E i \in 1..Len(calls) : calls[i].won
Lost == \E i \in 1..Len(calls) : ~calls[i].won
WonNow == \E i \in 1..Len(tick.calls) : tick.calls[i].won
LostNow == \E i \in 1..Len(tick.calls) : ~tick.calls[i].won
Destroyed(s) == Len(s.bricks) - ActiveBricks(s)
SeventyPercent(s) == 10 * Destroyed(s) >= 7 * Len(s.bricks)
Spawned(s) == Len(s.smallBoss) > 0 /\ s.smallBoss[1].spawned

(* C1: onGameOver is invoked at most once in a run, never twice within one *)
(* tick.                                                                   *)
C1_OnGameOverOnce == Len(calls) <= 1

(* C2: once onGameOver has been invoked, a later call of gameLoop leaves   *)
(* the whole simulation state unchanged.                                   *)
C2_FrozenAfterGameOver ==
  [][(Len(calls) > 0 /\ tick'.op = "gameLoop") => state' = state]_vars

(* A call of gameLoop has come after the callback.                         *)
C2_Witness == Len(calls) > 0 /\ tick.op = "gameLoop" /\ tick.calls = <<>>

(* C3: lives, and every value passed to setLives, lies in 0..3.            *)
C3_LivesInRange ==
  /\ state.lives \in 0..MaxLives
  /\ \A i \in 1..Len(tick.lives) : tick.lives[i] \in 0..MaxLives

(* C4: no step, tick or event, lowers the score.                           *)
C4_ScoreMonotone == [][state'.score >= state.score]_vars

(* A tick has destroyed a brick and scored it.                             *)
C4_Witness == tick.destroyed > 0 /\ state.score > 0 /\ state.isRunning

(* C5: a tick that brings lives to 0, by the loss of all balls or by a     *)
(* fireball on the paddle, ends the run: isRunning is false after it and   *)
(* it has invoked onGameOver(score, false).                                *)
C5_LossEndsRun ==
  /\ state.lives <= 0 => ~state.isRunning /\ Lost
  /\ (\E i \in 1..Len(tick.lives) : tick.lives[i] <= 0) => ~state.isRunning /\ LostNow

(* The last life has just gone.                                            *)
C5_Witness == tick.op = "gameLoop" /\ tick.lost > 0 /\ state.lives = 0

(* C6: on a level without boss the win is reported if and only if no live  *)
(* brick is left: never while one remains, and by the first frame that     *)
(* runs with none left.                                                    *)
C6_WinIffCleared ==
  level.id % 5 # 0 =>
    /\ Won => ActiveBricks(state) = 0
    /\ (/\ ActiveBricks(state) = 0
        /\ ~state.isPaused
        /\ tick.op = "gameLoop"
        /\ tick.destroyed = 0) => Won

(* C7: on a boss level the win is reported only by the frame that ends the *)
(* destruction countdown, with the bricks cleared, the boss spawned and    *)
(* its health at 0 or less; the countdown starts at 120 only then and      *)
(* comes down by one a frame.                                              *)
C7_BossWinAfterCountdown ==
  [][level.id % 5 = 0 =>
       /\ (tick'.op = "gameLoop" /\ (\E i \in 1..Len(tick'.calls) : tick'.calls[i].won)) =>
            /\ ActiveBricks(state) = 0
            /\ state.bossActive
            /\ Len(state.boss) > 0
            /\ state.boss[1].health <= 0
            /\ state.bossDestructionTimer = 1
            /\ state'.bossDestructionTimer = 0
       /\ \/ state'.bossDestructionTimer = state.bossDestructionTimer
          \/ /\ state.bossDestructionTimer > 0
             /\ state'.bossDestructionTimer = state.bossDestructionTimer - 1
          \/ /\ state.bossDestructionTimer = 0
             /\ state'.bossDestructionTimer = BossCountdown - 1
             /\ ActiveBricks(state) = 0
             /\ state.bossActive
             /\ state'.boss[1].health <= 0]_vars

(* The boss battle has been won after a whole countdown.                   *)
C7_Witness ==
  /\ level.id % 5 = 0
  /\ WonNow
  /\ state.boss[1].moveTimer >= 100 + BossCountdown

(* C8: on a level with oscillating bricks, a live brick that overlaps the  *)
(* paddle's bounding box has ended the run with a loss.                    *)
C8_BrickOnPaddleEndsRun ==
  (/\ level.id % 5 = 0
   /\ \E k \in 1..Len(state.bricks) :
        /\ state.bricks[k].hits > 0
        /\ Overlaps(state.bricks[k].x, state.bricks[k].width,
                    state.bricks[k].y, state.bricks[k].height,
                    PaddleX(state), EffectiveWidth(state),
                    state.paddle.y, state.paddle.height))
  => ~state.isRunning /\ Lost

(* C9 as stated: the first life-losing event of an active shield is        *)
(* absorbed, lives unchanged and shieldActive cleared; with the shield     *)
(* used up (shieldActive false, shieldTimer still running) and no new      *)
(* pickup, every such event takes a life.                                  *)
C9_ShieldAbsorbsOne ==
  [][(tick'.op = "gameLoop" /\ tick'.hits > 0) =>
       /\ state.shieldActive =>
            /\ tick'.absorbed = 1
            /\ tick'.lost = tick'.hits - 1
       /\ (~state.shieldActive /\ state.shieldTimer > 0) =>
            /\ tick'.absorbed = 0
            /\ tick'.lost = tick'.hits]_vars

(* C9, amended: the first life-losing event of an active shield leaves     *)
(* lives alone and clears shieldActive whatever shieldTimer; every other   *)
(* one takes a life, except a fireball that reaches the paddle while       *)
(* bossDestructionTimer > 0, which takes none.                             *)
C9_ShieldAbsorbsOneOutsideCountdown ==
  [][(tick'.op = "gameLoop" /\ tick'.hits > 0) =>
       LET absorbed == IF state.shieldActive THEN 1 ELSE 0
           graced == IF state.bossDestructionTimer > 0
                     THEN tick'.burns - (IF tick'.burns > 0 THEN absorbed ELSE 0)
                     ELSE 0
           has(type) == \E i \in 1..Len(tick'.pickups) : tick'.pickups[i] = type
       IN /\ tick'.absorbed = absorbed
          /\ tick'.graced = graced
          /\ tick'.lost = tick'.hits - absorbed - graced
          /\ ~has("extra_life") => state'.lives = state.lives - tick'.lost
          /\ (absorbed = 1 /\ ~has("shield")) => ~state'.shieldActive]_vars

(* A shield has absorbed one event and the next one, in the same frame,    *)
(* has taken a life, the shield's timer still running.                     *)
C9_Witness ==
  /\ tick.absorbed = 1
  /\ tick.hits > 1
  /\ tick.lost > 0
  /\ ~state.shieldActive
  /\ state.shieldTimer > 0

(* C10: the mini-boss spawns in the tick that brings the destroyed bricks  *)
(* to 70% of the level's bricks, the bricks destroyed in that tick         *)
(* counted, and in no tick after it has spawned.                           *)
C10_SmallBossAtSeventyPercent ==
  [][tick'.op = "gameLoop" =>
       /\ (~SeventyPercent(state) /\ SeventyPercent(state')) => tick'.spawnedSmallBoss = 1
       /\ Spawned(state) => tick'.spawnedSmallBoss = 0]_vars

(* C11: while debuffDamage > 0 a tick changes the hits of no brick and     *)
(* destroys none, so the score moves only by mini-boss bonuses.            *)
C11_DebuffFreezesBricks ==
  [][(tick'.op = "gameLoop" /\ state.debuffDamage > 0) =>
       /\ \A k \in 1..Len(state.bricks) : state'.bricks[k].hits = state.bricks[k].hits
       /\ tick'.destroyed = 0
       /\ state'.score = state.score + SmallBossBonus * tick'.bonus]_vars

(* A ball lies on a live brick after a tick under the debuff.              *)
C11_Witness ==
  /\ tick.op = "gameLoop"
  /\ state.debuffDamage > 0
  /\ \E k \in 1..Len(state.bricks), b \in 1..Len(state.balls) :
       state.bricks[k].hits > 0 /\ BallOverBrick(state.balls[b], state.bricks[k])

(* C12: the tick that picks up TEMP_DAMAGE with damageBonus > 0 leaves     *)
(* damageBonus = 0, tempDamage = 1 and tempDamageTimer at 20 s of frames.  *)
C12_TempDamageClearsBonus ==
  [][(/\ tick'.op = "gameLoop"
      /\ tick'.pickups = <<"temp_damage">>
      /\ state.damageBonus > 0) =>
       /\ state'.damageBonus = 0
       /\ state'.tempDamage = 1
       /\ state'.tempDamageTimer = 20 * Fps]_vars

(* TEMP_DAMAGE has been picked up over a permanent bonus.                  *)
C12_Witness == tick.pickups = <<"temp_damage">> /\ tick.cleared = 1

(* C13: damageBonus and tempDamage are never both positive.                *)
C13_DamageExclusive == ~(state.damageBonus > 0 /\ state.tempDamage > 0)

(* The live bricks of s that the moved ball overlaps.                      *)
Struck(s, ball) ==
  {k \in 1..Len(s.bricks) : s.bricks[k].hits > 0 /\ BallOverBrick(ball, s.bricks[k])}

(* A tick of a running game with one ball in play on a level without boss. *)
OneBallTick ==
  /\ tick'.op = "gameLoop"
  /\ state.isRunning /\ ~state.isPaused
  /\ ~IsBossLevel(level)
  /\ Len(state.balls) = 1 /\ Len(state'.balls) = 1

(* C14: without debuff every live brick the ball overlaps, and no other,   *)
(* loses exactly 1 + damageBonus + tempDamage hits in the tick; the bricks *)
(* brought to zero or below are the ones destroyed.                        *)
C14_EveryStruckBrickDamaged ==
  [][(OneBallTick /\ state.debuffDamage = 0) =>
       LET struck == Struck(state, state'.balls[1])
           damage == 1 + state.damageBonus + state.tempDamage
       IN /\ \A k \in 1..Len(state.bricks) :
               state'.bricks[k].hits =
                 state.bricks[k].hits - (IF k \in struck THEN damage ELSE 0)
          /\ tick'.destroyed =
               Cardinality({k \in struck : state.bricks[k].hits <= damage})]_vars

(* Two bricks of maxHits 2 under the ball were destroyed by one collision  *)
(* with damageBonus = 1 and tempDamage = 0.                                *)
C14_Witness ==
  /\ tick.op = "gameLoop"
  /\ state.debuffDamage = 0 /\ state.damageBonus = 1 /\ state.tempDamage = 0
  /\ tick.destroyed = 2
  /\ Len(state.balls) = 1
  /\ Cardinality({k \in 1..Len(state.bricks) :
                    /\ state.bricks[k].maxHits = 2
                    /\ state.bricks[k].hits = 0
                    /\ BallOverBrick(state.balls[1], state.bricks[k])}) = 2

(* C15: a tick adds to the score 10 * maxHits for every brick it destroys, *)
(* doubled when doublePointsActive held as the tick began, and nothing     *)
(* else but the mini-boss bonus.                                           *)
C15_DestroyScore ==
  [][(tick'.op = "gameLoop" /\ ~IsBossLevel(level)) =>
       LET destroyed == {k \in 1..Len(state.bricks) :
                           state.bricks[k].hits > 0 /\ state'.bricks[k].hits <= 0}
       IN state'.score =
            state.score
            + SumPoints(state.bricks, destroyed) * (IF state.doublePointsActive THEN 2 ELSE 1)
            + SmallBossBonus * tick'.bonus]_vars

(* A brick of maxHits 3 was destroyed in the tick in which double score    *)
(* ran out, and added 60.                                                  *)
C15_Witness ==
  /\ tick.op = "gameLoop"
  /\ level.id = 26
  /\ tick.destroyed = 1
  /\ state.score = 60
  /\ ~state.doublePointsActive
  /\ \E k \in 1..Len(state.bricks) :
       state.bricks[k].hits <= 0 /\ state.bricks[k].maxHits = 3

(* Contact of a moved ball with the edges of the canvas.                   *)
TouchesLeft(ball) == ball.x - ball.radius < 0
TouchesRight(ball) == ball.x + ball.radius > CanvasWidth
TouchesTop(ball) == ball.y - ball.radius < 0

(* A tick in which only the walls can turn ball k: the ball ends above the *)
(* paddle, on no brick, and no mini-boss is in the field.                  *)
WallsOnly(k) ==
  /\ tick'.op = "gameLoop"
  /\ state.isRunning /\ ~state.isPaused
  /\ ~IsBossLevel(level)
  /\ ~SmallBossActive(state)
  /\ Len(state'.balls) = Len(state.balls)
  /\ k \in 1..Len(state.balls)
  /\ state'.balls[k].y + state'.balls[k].radius <= state.paddle.y
  /\ Struck(state, state'.balls[k]) = {}

(* C16 as stated: a side contact reflects dx and leaves dy unchanged, a    *)
(* top contact reflects dy and leaves dx unchanged.                        *)
C16_WallStepLiteral ==
  [][\A k \in 1..Len(state.balls) : WallsOnly(k) =>
       LET b == state.balls[k]
           a == state'.balls[k]
       IN /\ TouchesLeft(a) => a.dx = Abs(b.dx) /\ a.dy = b.dy
          /\ TouchesRight(a) => a.dx = -Abs(b.dx) /\ a.dy = b.dy
          /\ TouchesTop(a) => a.dy = Abs(b.dy) /\ a.dx = b.dx]_vars

(* C16, amended: a side contact reflects dx with its magnitude and leaves  *)
(* dy unchanged unless the ball also touches the top; a top contact        *)
(* reflects dy with its magnitude and leaves dx unchanged unless the ball  *)
(* also touches a side.                                                    *)
C16_WallStep ==
  [][\A k \in 1..Len(state.balls) : WallsOnly(k) =>
       LET b == state.balls[k]
           a == state'.balls[k]
       IN /\ TouchesLeft(a) => a.dx = Abs(b.dx) /\ (~TouchesTop(a) => a.dy = b.dy)
          /\ TouchesRight(a) => a.dx = -Abs(b.dx) /\ (~TouchesTop(a) => a.dy = b.dy)
          /\ TouchesTop(a) =>
               /\ a.dy = Abs(b.dy)
               /\ (~TouchesLeft(a) /\ ~TouchesRight(a)) => a.dx = b.dx]_vars

(* A ball in the top left corner has been turned by both walls at once.    *)
C16_Witness ==
  /\ tick.op = "gameLoop"
  /\ \E k \in 1..Len(state.balls) :
       /\ TouchesLeft(state.balls[k]) /\ TouchesTop(state.balls[k])
       /\ state.balls[k].dx > 0 /\ state.balls[k].dy > 0

(* C17: a tick requested while paused changes nothing of the state and     *)
(* reports nothing, and the pause button changes isPaused only, so the     *)
(* state on resume is the state at pause.                                  *)
C17_PausedTickChangesNothing ==
  [][/\ (tick'.op = "gameLoop" /\ state.isPaused) => state' = state /\ calls' = calls
     /\ tick'.op = "pause" => state' = [state EXCEPT !.isPaused = state'.isPaused]]_vars

(* A tick was requested while a running game with a ball in flight was     *)
(* paused.                                                                 *)
C17_Witness ==
  /\ tick.op = "gameLoop"
  /\ state.isPaused /\ state.isRunning
  /\ ~state.waitingForLaunch
  /\ \E k \in 1..Len(state.balls) : state.balls[k].dy # 0

(* The balls of s that are below the field once moved.                     *)
Below(s) ==
  LET moved == MoveBalls(s).balls
  IN {k \in 1..Len(moved) :
        ~s.waitingForLaunch /\ moved[k].y - moved[k].radius > CanvasHeight}

(* C18: in a tick without fireball hit and without pickup, if some ball    *)
(* remains after the balls below the field are removed, lives, shieldActive*)
(* and waitingForLaunch are unchanged; if balls are lost and none remains, *)
(* the shield or a life is consumed, and if the run continues the state    *)
(* holds exactly one ball with zero velocity and waitingForLaunch = true.  *)
C18_LifeOnlyWhenAllBallsLost ==
  [][(/\ tick'.op = "gameLoop"
      /\ state.isRunning /\ ~state.isPaused
      /\ tick'.burns = 0 /\ tick'.pickups = <<>>
      /\ state.shieldTimer # 1) =>
       LET n == Len(state.balls)
           below == Below(state)
       IN /\ Cardinality(below) < n =>
               /\ state'.lives = state.lives
               /\ state'.shieldActive = state.shieldActive
               /\ state'.waitingForLaunch = state.waitingForLaunch
               /\ Len(state'.balls) = n - Cardinality(below)
               /\ tick'.hits = 0
          /\ (below # {} /\ Cardinality(below) = n) =>
               /\ tick'.hits = 1
               /\ state'.lives = state.lives - (IF state.shieldActive THEN 0 ELSE 1)
               /\ ~state'.shieldActive
               /\ state'.isRunning =>
                    /\ Len(state'.balls) = 1
                    /\ state'.balls[1].dx = 0 /\ state'.balls[1].dy = 0
                    /\ state'.waitingForLaunch]_vars

(* One of two balls has left the field: the other is in flight, no life    *)
(* and no shield was spent.                                                *)
C18_Witness ==
  /\ tick.op = "gameLoop"
  /\ level.id = 1
  /\ tick.hits = 0
  /\ Len(state.balls) = 1
  /\ ~state.waitingForLaunch
  /\ state.balls[1].dx = 274 /\ state.balls[1].dy = 539
  /\ state.balls[1].y - state.balls[1].radius <= CanvasHeight
  /\ state.lives = 1
  /\ state.shieldActive

(* The effect state: every field a power-up can set, lives apart.          *)
EffectState(s) ==
  <<s.damageBonus, s.tempDamage, s.tempDamageTimer,
    s.debuffDamage, s.debuffDamageTimer,
    s.paddleSizeMultiplier, s.paddleSizeTimer,
    s.ballSpeedMultiplier, s.ballSpeedTimer,
    s.shieldActive, s.shieldTimer,
    s.doublePointsActive, s.doublePointsTimer,
    Len(s.balls)>>

(* C19: the tick that picks up EXTRA_LIFE, and loses no life, leaves lives *)
(* at min(lives + 1, 3) and the effect state as the timers alone leave it. *)
C19_ExtraLifeCapped ==
  [][(/\ tick'.op = "gameLoop"
      /\ tick'.pickups = <<"extra_life">>
      /\ tick'.hits = 0) =>
       /\ state'.lives = Min(state.lives + 1, 3)
       /\ EffectState(state') = EffectState(UpdateTimers(state))]_vars

(* EXTRA_LIFE was picked up with three lives and set no life count.        *)
C19_Witness ==
  /\ tick.op = "gameLoop"
  /\ tick.pickups = <<"extra_life">>
  /\ tick.lives = <<>>
  /\ state.lives = 3

(* A boss, if there is one, is on a level whose id is a multiple of 5,     *)
(* with no live brick left, and its maxHealth is the level id.             *)
BossInPlace(s, lv) ==
  Len(s.boss) > 0 =>
    /\ lv.id % 5 = 0
    /\ \A k \in 1..Len(s.bricks) : s.bricks[k].hits <= 0
    /\ s.boss[1].maxHealth = lv.id
    /\ s.boss[1].health <= lv.id

(* C20: a boss exists only on a level whose id is a multiple of 5 and only *)
(* with every brick at hits <= 0; startBossBattle runs only with no boss   *)
(* yet and gives the boss health = maxHealth = level.id, and a boss once   *)
(* there stays, so it is spawned at most once per run.                     *)
C20_BossOnFifthLevelsOnce ==
  [][/\ BossInPlace(state, level) /\ BossInPlace(state', level')
     /\ tick'.startedBoss =>
          /\ ~state.bossActive /\ Len(state.boss) = 0
          /\ state'.bossActive /\ Len(state'.boss) = 1
          /\ state'.boss[1].health = level.id
          /\ state'.boss[1].maxHealth = level.id
     /\ (state.bossActive \/ Len(state.boss) > 0) =>
          /\ ~tick'.startedBoss
          /\ state'.bossActive /\ Len(state'.boss) = 1]_vars

(* The boss of level 5 has just been spawned, at full health.              *)
C20_Witness ==
  /\ tick.op = "gameLoop"
  /\ tick.startedBoss
  /\ level.id = 5
  /\ state.bossActive
  /\ state.boss[1].health = 5

(* C21: while bossDestructionTimer > 0 no tick changes the health of the   *)
(* boss.                                                                   *)
C21_NoDamageInCountdown ==
  [][(/\ tick'.op = "gameLoop"
      /\ state.bossDestructionTimer > 0
      /\ Len(state.boss) > 0 /\ Len(state'.boss) > 0) =>
       state'.boss[1].health = state.boss[1].health]_vars

(* C22: in a tick that begins with bossDestructionTimer > 0 no fireball on *)
(* the paddle takes a life: lives are taken by lost balls only, and a tick *)
(* whose only life-losing events are fireballs leaves lives unchanged and  *)
(* reports no loss.                                                        *)
C22_FireballGraceInCountdown ==
  [][(/\ tick'.op = "gameLoop"
      /\ state.isRunning /\ ~state.isPaused
      /\ state.bossDestructionTimer > 0) =>
       /\ tick'.lost <= tick'.hits - tick'.burns
       /\ (tick'.burns > 0 /\ tick'.hits = tick'.burns /\ tick'.pickups = <<>>) =>
            /\ state'.lives = state.lives
            /\ \A i \in 1..Len(tick'.calls) : tick'.calls[i].won]_vars

(* A fireball has reached the unshielded paddle of a player on the last    *)
(* life during the countdown, and the run goes on.                         *)
C22_Witness ==
  /\ tick.op = "gameLoop"
  /\ tick.burns > 0 /\ tick.graced = tick.burns
  /\ state.lives = 1
  /\ state.isRunning
  /\ state.bossDestructionTimer > 0

(* C23: every onGameOver call of a tick carries the score the state holds  *)
(* at the end of that tick.                                                *)
C23_FinalScoreIsEndScore ==
  [][tick'.op = "gameLoop" =>
       \A i \in 1..Len(tick'.calls) : tick'.calls[i].score = state'.score]_vars

(* One timer over one tick.  Picked up in the tick, it ends the tick at    *)
(* its full duration with the effect on; otherwise a running timer loses   *)
(* exactly 1, the effect staying as it was until the timer reaches 0 and   *)
(* being at baseline when it does; a timer at 0 stays at 0.                *)
TimerStep(picked, duration, before, after, on, kept, baseline) ==
  /\ after >= 0
  /\ IF picked THEN after = duration /\ on
     ELSE IF before > 0
          THEN after = before - 1 /\ (IF after = 0 THEN baseline ELSE kept)
          ELSE after = 0 /\ kept

(* C24: over every unpaused tick of a run that goes on, each effect timer  *)
(* follows TimerStep with its duration (1200 TEMP_DAMAGE, 900              *)
(* DEBUFF_DAMAGE, 600 PADDLE_SHRINK, 1200 PADDLE_GROW, 600 FAST_BALL, 900  *)
(* DOUBLE_POINTS, 1200 SHIELD): set at the end of the pickup tick t, the   *)
(* effect is on at the start of ticks t+1 .. t+N and at baseline from the  *)
(* end of tick t+N, and no timer goes below 0.                             *)
C24_TimedEffectsLastN ==
  [][(/\ tick'.op = "gameLoop"
      /\ state.isRunning /\ ~state.isPaused
      /\ state'.isRunning) =>
       LET picks == tick'.pickups
           has(type) == \E i \in 1..Len(picks) : picks[i] = type
           sizes == {i \in 1..Len(picks) : picks[i] \in {"paddle_shrink", "paddle_grow"}}
           size == IF sizes = {} THEN "none"
                   ELSE picks[CHOOSE i \in sizes : \A j \in sizes : j <= i]
       IN /\ TimerStep(has("temp_damage"), 1200,
                       state.tempDamageTimer, state'.tempDamageTimer,
                       state'.tempDamage = 1,
                       state'.tempDamage = state.tempDamage,
                       state'.tempDamage = 0)
          /\ TimerStep(has("debuff_damage"), 900,
                       state.debuffDamageTimer, state'.debuffDamageTimer,
                       state'.debuffDamage = 1,
                       state'.debuffDamage = state.debuffDamage,
                       state'.debuffDamage = 0)
          /\ TimerStep(size # "none", IF size = "paddle_grow" THEN 1200 ELSE 600,
                       state.paddleSizeTimer, state'.paddleSizeTimer,
                       state'.paddleSizeMultiplier = (IF size = "paddle_grow" THEN 13 ELSE 8),
                       state'.paddleSizeMultiplier = state.paddleSizeMultiplier,
                       state'.paddleSizeMultiplier = 10)
          /\ TimerStep(has("fast_ball"), 600,
                       state.ballSpeedTimer, state'.ballSpeedTimer,
                       state'.ballSpeedMultiplier = 15,
                       state'.ballSpeedMultiplier = state.ballSpeedMultiplier,
                       state'.ballSpeedMultiplier = 10)
          /\ TimerStep(has("double_points"), 900,
                       state.doublePointsTimer, state'.doublePointsTimer,
                       state'.doublePointsActive,
                       state'.doublePointsActive = state.doublePointsActive,
                       ~state'.doublePointsActive)
          /\ TimerStep(has("shield"), 1200,
                       state.shieldTimer, state'.shieldTimer,
                       state'.shieldActive,
                       tick'.absorbed = 0 => state'.shieldActive = state.shieldActive,
                       ~state'.shieldActive)]_vars

(* TEMP_DAMAGE, picked up in the second tick over a permanent bonus, is    *)
(* back at baseline at the end of the tick 1200 ticks later.               *)
C24_Witness ==
  /\ tick.op = "gameLoop"
  /\ state.timeElapsed = 3000 + 2 + 1200
  /\ state.damageBonus = 0
  /\ state.tempDamage = 0 /\ state.tempDamageTimer = 0

(* C25: shieldActive goes from true to false in a tick only when           *)
(* shieldTimer reaches 0 or when the shield absorbs an event that would    *)
(* have taken a life: the loss of all balls, or a fireball on the paddle   *)
(* outside the destruction countdown.                                      *)
C25_ShieldSpentOnlyForALife ==
  [][(/\ tick'.op = "gameLoop"
      /\ state.shieldActive /\ ~state'.shieldActive) =>
       \/ state.shieldTimer = 1
       \/ /\ tick'.absorbed = 1
          /\ tick'.burns = 0 \/ state.bossDestructionTimer = 0]_vars

(* C26: the boss phase only moves forward.  bossActive never returns to    *)
(* false.  The countdown starts, at 120 less the tick's own step, in the   *)
(* tick that brings the health of the boss to 0 or less, and only from a   *)
(* positive health, hence once; it then loses exactly 1 per unpaused tick  *)
(* unless a loss ends the run, and the tick that brings it to 0 reports    *)
(* the win with the score, 120 ticks after the health reached 0.           *)
C26_BossPhaseForward ==
  [][/\ state.bossActive => state'.bossActive
     /\ state'.bossDestructionTimer \in 0..(BossCountdown - 1)
     /\ (tick'.op = "gameLoop" /\ state.isRunning /\ ~state.isPaused) =>
          LET alive(s) == Len(s.boss) = 0 \/ s.boss[1].health > 0
              lossNow == \E i \in 1..Len(tick'.calls) : ~tick'.calls[i].won
          IN /\ (alive(state) /\ ~alive(state')) =>
                  /\ state.bossActive
                  /\ state'.bossDestructionTimer = BossCountdown - 1
             /\ (state.bossDestructionTimer = 0 /\ state'.bossDestructionTimer > 0) =>
                  alive(state) /\ ~alive(state')
             /\ state.bossDestructionTimer > 0 =>
                  \/ lossNow /\ state'.bossDestructionTimer = state.bossDestructionTimer
                  \/ /\ state'.bossDestructionTimer = state.bossDestructionTimer - 1
                     /\ state'.bossDestructionTimer = 0 =>
                          /\ ~state'.isRunning
                          /\ tick'.calls = <<[score |-> state'.score, won |-> TRUE]>>]_vars

(* Defeated: the countdown of a boss brought down in the fight has run out *)
(* and the win was reported.                                               *)
C26_Witness ==
  /\ tick.op = "gameLoop"
  /\ state.bossActive /\ state.boss[1].health <= 0
  /\ state.bossDestructionTimer = 0
  /\ state.boss[1].moveTimer >= 100 + BossCountdown
  /\ ~state.isRunning
  /\ tick.calls = <<[score |-> state.score, won |-> TRUE]>>

(* C27: at the end of every tick the effective-width paddle lies inside    *)
(* the field.                                                              *)
C27_PaddleInsideField ==
  tick.op = "gameLoop" =>
    /\ 0 <= PaddleX(state)
    /\ PaddleX(state) + EffectiveWidth(state) <= CanvasWidth

(* The penetrations of a ball into a brick.                                *)
OverlapX(ball, brick) ==
  Min((ball.x + ball.radius) - brick.x, (brick.x + brick.width) - (ball.x - ball.radius))
OverlapY(ball, brick) ==
  Min((ball.y + ball.radius) - brick.y, (brick.y + brick.height) - (ball.y - ball.radius))

(* A tick in which the one ball in play ends on exactly one live brick,    *)
(* away from the walls and above the paddle.                               *)
OnOneBrick ==
  /\ OneBallTick
  /\ ~SmallBossActive(state)
  /\ Cardinality(Struck(state, state'.balls[1])) = 1
  /\ ~TouchesLeft(state'.balls[1]) /\ ~TouchesRight(state'.balls[1])
  /\ ~TouchesTop(state'.balls[1])
  /\ state'.balls[1].y + state'.balls[1].radius <= state.paddle.y

(* C28 as stated: dy is inverted if the vertical penetration is the        *)
(* smaller one, dx in every other case, equal penetrations included.       *)
C28_BounceTieInvertsDx ==
  [][OnOneBrick =>
       LET b == state.balls[1]
           a == state'.balls[1]
           brick == state.bricks[CHOOSE k \in Struck(state, a) : TRUE]
       IN IF OverlapY(a, brick) < OverlapX(a, brick)
          THEN a.dy = -b.dy /\ a.dx = b.dx
          ELSE a.dx = -b.dx /\ a.dy = b.dy]_vars

(* C28, amended: dx is inverted if the horizontal penetration is the       *)
(* smaller one, dy in every other case, equal penetrations included.       *)
C28_BounceTieInvertsDy ==
  [][OnOneBrick =>
       LET b == state.balls[1]
           a == state'.balls[1]
           brick == state.bricks[CHOOSE k \in Struck(state, a) : TRUE]
       IN IF OverlapX(a, brick) < OverlapY(a, brick)
          THEN a.dx = -b.dx /\ a.dy = b.dy
          ELSE a.dy = -b.dy /\ a.dx = b.dx]_vars

(* The ball has met the corner of a brick with equal penetrations and      *)
(* leaves it downwards, still moving left.                                 *)
C28_Witness ==
  /\ tick.op = "gameLoop"
  /\ tick.destroyed = 1
  /\ Len(state.balls) = 1
  /\ OverlapX(state.balls[1], state.bricks[1]) = OverlapY(state.balls[1], state.bricks[1])
  /\ OverlapX(state.balls[1], state.bricks[1]) > 0
  /\ state.bricks[1].hits = 0
  /\ state.balls[1].dx < 0 /\ state.balls[1].dy > 0

(* C29: the time ramp starts at 1, never decreases, grows by 0.05 and only *)
(* in ticks that bring the count of unpaused ticks to a multiple of 600,   *)
(* grows in each such tick while it is below 1.5, and never exceeds 1.5.   *)
C29_TimeRamp ==
  [][/\ state.timeElapsed = 0 => state.timeSpeedMultiplier = 100 /\ ~AboveCap(state)
     /\ state'.timeSpeedMultiplier >= state.timeSpeedMultiplier
     /\ state'.timeSpeedMultiplier > state.timeSpeedMultiplier =>
           /\ state'.timeSpeedMultiplier = state.timeSpeedMultiplier + RampStep
           /\ state'.timeElapsed = state.timeElapsed + 1
           /\ state'.timeElapsed % RampPeriod = 0
     /\ (/\ state'.timeElapsed = state.timeElapsed + 1
         /\ state'.timeElapsed % RampPeriod = 0
         /\ state.timeSpeedMultiplier < RampCap) =>
           state'.timeSpeedMultiplier = state.timeSpeedMultiplier + RampStep
     /\ ~AboveCap(state')]_vars

(* The ball is over the hit-box of the mini-boss.                          *)
OverSmallBoss(s, ball) ==
  BallOverBox(ball, s.smallBoss[1].x - SmallBossHitboxSize, 2 * SmallBossHitboxSize,
              s.smallBoss[1].y - SmallBossHitboxSize, 2 * SmallBossHitboxSize)

(* C30: in a tick in which a ball ends over the hit-box of the active      *)
(* mini-boss, the mini-boss becomes inactive and the score grows by        *)
(* exactly 100, once, with one ball or two over it and with or without     *)
(* double score; the bonus is only given for an active mini-boss, no ball  *)
(* is left over an active one, and the balls keep their velocity.          *)
C30_MiniBossBonusOnce ==
  [][(/\ tick'.op = "gameLoop"
      /\ state.isRunning /\ ~state.isPaused
      /\ ~IsBossLevel(level)
      /\ Len(state.smallBoss) > 0
      /\ Len(state'.balls) = Len(state.balls)) =>
       LET over == {k \in 1..Len(state.balls) : OverSmallBoss(state', state'.balls[k])}
           hit == SmallBossActive(state) /\ over # {}
       IN /\ tick'.bonus = IF hit THEN 1 ELSE 0
          /\ hit => ~SmallBossActive(state')
          /\ tick'.destroyed = 0 =>
                state'.score = state.score + (IF hit THEN SmallBossBonus ELSE 0)
          /\ hit =>
                \A k \in 1..Len(state.balls) :
                  (/\ Struck(state, state'.balls[k]) = {}
                   /\ ~TouchesLeft(state'.balls[k]) /\ ~TouchesRight(state'.balls[k])
                   /\ ~TouchesTop(state'.balls[k])
                   /\ state'.balls[k].y + state'.balls[k].radius <= state.paddle.y) =>
                    /\ state'.balls[k].dx = state.balls[k].dx
                    /\ state'.balls[k].dy = state.balls[k].dy]_vars

(* Two balls have reached the mini-boss in one tick under double score:    *)
(* it is inactive and one bonus was given.                                 *)
C30_Witness ==
  /\ tick.op = "gameLoop"
  /\ tick.bonus = 1
  /\ Len(state.balls) = 2
  /\ \A k \in 1..2 : OverSmallBoss(state, state.balls[k])
  /\ ~SmallBossActive(state)
  /\ state.doublePointsActive
  /\ state.score = SumPoints(MakeBricks(Level1), 7..24) + SmallBossBonus

(* The way the mini-boss has left to the edge opposite to its entry.       *)
WayOut(sb) ==
  IF sb.direction = 1 THEN CanvasWidth + 5000 - sb.x ELSE sb.x + 5000

(* C31: every tick of the running game takes an active mini-boss at least  *)
(* 2 px closer to the edge opposite to its entry, of the 880 px it has to  *)
(* go, and it stays active without a hit only while it has not passed      *)
(* that edge; the expiry changes neither score nor lives; an inactive      *)
(* mini-boss stays as it is.                                               *)
C31_MiniBossExpires ==
  [][(/\ tick'.op = "gameLoop"
      /\ state.isRunning /\ ~state.isPaused
      /\ Len(state.smallBoss) > 0) =>
       LET sb == state.smallBoss[1]
           after == state'.smallBoss[1]
       IN IF sb.active
          THEN /\ sb.speed >= 200
               /\ WayOut(sb) \in 0..(CanvasWidth + 8000)
               /\ WayOut(after) = WayOut(sb) - sb.speed
               /\ after.direction = sb.direction /\ after.speed = sb.speed
               /\ after.y = sb.y
               /\ after.active <=> (WayOut(after) >= 0 /\ tick'.bonus = 0)
               /\ (~after.active /\ tick'.bonus = 0 /\ tick'.destroyed = 0) =>
                    state'.score = state.score
               /\ (~after.active /\ tick'.bonus = 0 /\ tick'.lost = 0 /\ tick'.burns = 0
                     /\ tick'.pickups = <<>>) =>
                    state'.lives = state.lives
          ELSE after = sb]_vars

(* A mini-boss that came in from the right has just passed the left edge   *)
(* without being hit.                                                      *)
C31_Witness ==
  /\ tick.op = "gameLoop"
  /\ tick.bonus = 0
  /\ Len(state.smallBoss) > 0
  /\ state.smallBoss[1].direction = -1
  /\ ~state.smallBoss[1].active
  /\ WayOut(state.smallBoss[1]) < 0
  /\ WayOut(state.smallBoss[1]) + state.smallBoss[1].speed >= 0
  /\ state.score = SumPoints(MakeBricks(Level1), 7..24)
  /\ state.lives = 3

(* The bricks brought to zero hits or below by the step.                   *)
NewlyDestroyed == {i \in 1..Len(state.bricks) : state.bricks[i].hits > 0 /\ state'.bricks[i].hits <= 0}

RECURSIVE DestroyScore(_, _)
DestroyScore(s, ks) ==
  IF ks = {} THEN 0
  ELSE LET i == CHOOSE k \in ks : TRUE
       IN BrickPoints(s, s.bricks[i]) + DestroyScore(s, ks \ {i})

(* C32: no step raises the hits of a brick; a brick at zero hits or below  *)
(* keeps its hits for good; the bricks destroyed in a tick are scored once *)
(* each, whatever the number of balls over them.                           *)
C32_BrickDestroyedOnce ==
  [][/\ Len(state'.bricks) = Len(state.bricks)
     /\ \A i \in 1..Len(state.bricks) :
          /\ state'.bricks[i].hits <= state.bricks[i].hits
          /\ state.bricks[i].hits <= 0 => state'.bricks[i].hits = state.bricks[i].hits
     /\ tick'.op = "gameLoop" =>
          /\ tick'.destroyed = Cardinality(NewlyDestroyed)
          /\ ~IsBossLevel(level) =>
               state'.score = state.score + DestroyScore(state, NewlyDestroyed)
                                + SmallBossBonus * tick'.bonus]_vars

(* Two balls are over the first brick in the tick that destroyed it: it    *)
(* was scored once, the first ball turned back and the second flew on.     *)
C32_Witness ==
  /\ tick.op = "gameLoop"
  /\ tick.destroyed = 1
  /\ Len(state.balls) = 2
  /\ \A k \in 1..2 : BallOverBrick(state.balls[k], state.bricks[1])
  /\ state.bricks[1].hits = 0
  /\ state.balls[1].dy > 0 /\ state.balls[2].dy < 0
  /\ state.doublePointsActive
  /\ state.score = SumPoints(MakeBricks(Level1), (2..24) \ {6}) + 2 * BrickScore

(* C33: a tick that picks up one SECOND_BALL leaves two balls as they are  *)
(* and gives one ball a second one at the middle of the paddle, at rest    *)
(* while the launch is awaited and else with velocity (0, -ballSpeed).     *)
C33_SecondBall ==
  [][(/\ tick'.op = "gameLoop"
      /\ tick'.pickups = <<"second_ball">>
      /\ tick'.lost = 0) =>
       IF Len(state.balls) = 2
       THEN /\ Len(state'.balls) = 2
            /\ state'.balls = MoveBalls(PinBalls(MovePaddle(state))).balls
       ELSE /\ Len(state.balls) = 1
            /\ Len(state'.balls) = 2
            /\ state'.balls[1] = MoveBalls(PinBalls(MovePaddle(state))).balls[1]
            /\ state'.balls[2] =
                 NewBall(state'.paddle.x + state'.paddle.width \div 2,
                         state'.paddle.y - 1200,
                         0, IF state.waitingForLaunch THEN 0 ELSE -level.ballSpeed)]_vars

(* The power-up was picked up before the launch: two balls at rest.        *)
C33_Witness ==
  /\ tick.op = "gameLoop"
  /\ tick.pickups = <<"second_ball">>
  /\ state.waitingForLaunch
  /\ Len(state.balls) = 2
  /\ state.balls[2].dx = 0 /\ state.balls[2].dy = 0
  /\ state.balls[2].x = state.paddle.x + state.paddle.width \div 2

(* C34: a click while the launch is awaited and the game is not paused     *)
(* gives the first ball, and a second ball at rest, the velocity           *)
(* (0, -ballSpeed) where they are and ends the wait, and changes nothing   *)
(* else; any other click changes nothing.                                  *)
C34_LaunchOnClick ==
  [][tick'.op = "click" =>
       IF state.waitingForLaunch /\ ~state.isPaused
       THEN /\ ~state'.waitingForLaunch
            /\ Len(state'.balls) = Len(state.balls)
            /\ state'.balls[1] = [state.balls[1] EXCEPT !.dx = 0, !.dy = -level.ballSpeed]
            /\ Len(state.balls) = 2 =>
                 state'.balls[2] =
                   IF state.balls[2].dx = 0 /\ state.balls[2].dy = 0
                   THEN [state.balls[2] EXCEPT !.dy = -level.ballSpeed]
                   ELSE state.balls[2]
            /\ state' = [state EXCEPT !.balls = state'.balls, !.waitingForLaunch = FALSE]
       ELSE state' = state]_vars

(* Two balls have just been launched from the paddle by one click.         *)
C34_Witness ==
  /\ tick.op = "click"
  /\ ~state.waitingForLaunch
  /\ Len(state.balls) = 2
  /\ \A k \in 1..2 :
       /\ state.balls[k].dx = 0 /\ state.balls[k].dy = -level.ballSpeed
       /\ state.balls[k].y = state.paddle.y - 1200

(* C35: each timed effect is in force exactly while its countdown is       *)
(* positive, and the shield is up only while its countdown is positive.    *)
C35_EffectIffTimer ==
  /\ state.tempDamage > 0 <=> state.tempDamageTimer > 0
  /\ state.debuffDamage > 0 <=> state.debuffDamageTimer > 0
  /\ state.paddleSizeMultiplier # 10 <=> state.paddleSizeTimer > 0
  /\ state.ballSpeedMultiplier # 10 <=> state.ballSpeedTimer > 0
  /\ state.doublePointsActive <=> state.doublePointsTimer > 0
  /\ state.shieldActive => state.shieldTimer > 0

(* DEBUFF_DAMAGE is in the last tick of its 15 seconds, still in force.    *)
C35_Witness ==
  /\ tick.op = "gameLoop"
  /\ state.debuffDamage = 1
  /\ state.debuffDamageTimer = 1
  /\ state.timeElapsed = 3000 + 2 + 15 * Fps - 1

(* The full duration of a timed power-up, in ticks.                        *)
Duration(type) ==
  CASE type \in {"temp_damage", "paddle_grow", "shield"} -> 20 * Fps
    [] type \in {"debuff_damage", "double_points"} -> 15 * Fps
    [] type \in {"paddle_shrink", "fast_ball"} -> 10 * Fps

(* The countdown of a timed power-up in state s.                           *)
TimerOf(s, type) ==
  CASE type = "temp_damage" -> s.tempDamageTimer
    [] type = "debuff_damage" -> s.debuffDamageTimer
    [] type \in {"paddle_shrink", "paddle_grow"} -> s.paddleSizeTimer
    [] type = "fast_ball" -> s.ballSpeedTimer
    [] type = "double_points" -> s.doublePointsTimer
    [] type = "shield" -> s.shieldTimer

(* C36: a tick that picks up one timed power-up while its countdown is     *)
(* running ends with the countdown at the full duration of that power-up,  *)
(* not more; for the paddle the countdown and the multiplier are those of  *)
(* the power-up picked up, whichever of the two was in force; the          *)
(* multiplier is always 0.8, 1 or 1.3.                                     *)
C36_PickupResetsCountdown ==
  [][/\ state'.paddleSizeMultiplier \in {8, 10, 13}
     /\ (/\ tick'.op = "gameLoop"
         /\ Len(tick'.pickups) = 1
         /\ tick'.pickups[1] \in TimedTypes
         /\ TimerOf(state, tick'.pickups[1]) > 1) =>
          /\ TimerOf(state', tick'.pickups[1]) = Duration(tick'.pickups[1])
          /\ tick'.pickups[1] = "paddle_shrink" => state'.paddleSizeMultiplier = 8
          /\ tick'.pickups[1] = "paddle_grow" => state'.paddleSizeMultiplier = 13]_vars

(* PADDLE_SHRINK has replaced PADDLE_GROW three ticks after it.            *)
C36_Witness ==
  /\ tick.op = "gameLoop"
  /\ tick.pickups = <<"paddle_shrink">>
  /\ state.paddleSizeMultiplier = 8
  /\ state.paddleSizeTimer = 10 * Fps
  /\ Len(state.powerups) = 0
  /\ state.shieldTimer = 0 /\ state.tempDamageTimer = 0
  /\ state.timeElapsed = 3005

(* C37: while the run is active, and while the launch is awaited, there    *)
(* are one or two balls; the list of                                       *)
(* balls becomes empty only in a tick that loses the last balls and        *)
(* reports the loss, which ends the run.                                   *)
C37_BallsWhileRunning ==
  [][/\ state.isRunning => Len(state.balls) \in {1, 2}
     /\ state'.isRunning => Len(state'.balls) \in {1, 2}
     /\ state'.waitingForLaunch => Len(state'.balls) \in {1, 2}
     /\ (Len(state.balls) > 0 /\ Len(state'.balls) = 0) =>
          /\ tick'.op = "gameLoop"
          /\ tick'.lost > 0
          /\ \E i \in 1..Len(tick'.calls) : ~tick'.calls[i].won
          /\ ~state'.isRunning]_vars

(* The last balls have left the field on the last life.                    *)
C37_Witness ==
  /\ tick.op = "gameLoop"
  /\ tick.lost > 0
  /\ tick.calls = <<[score |-> state.score, won |-> FALSE]>>
  /\ Len(state.balls) = 0
  /\ ~state.isRunning
  /\ state.lives = 0

(* The ball is at rest.                                                    *)
AtRest(ball) == ball.dx = 0 /\ ball.dy = 0

(* Every ball of s is at rest while the launch is awaited, and no ball at  *)
(* rest is in the list with a moving one.                                  *)
RestOrFlight(s) ==
  /\ s.waitingForLaunch => \A k \in 1..Len(s.balls) : AtRest(s.balls[k])
  /\ \A j, k \in 1..Len(s.balls) : AtRest(s.balls[j]) <=> AtRest(s.balls[k])

(* C38: RestOrFlight holds before and after every step, and a tick of the  *)
(* running game that starts awaiting the launch leaves every ball on the   *)
(* middle of the paddle, 2 px above it, instead of moving it.              *)
C38_RestWhileWaiting ==
  [][/\ RestOrFlight(state) /\ RestOrFlight(state')
     /\ (/\ tick'.op = "gameLoop"
         /\ state.isRunning /\ ~state.isPaused
         /\ state.waitingForLaunch) =>
          /\ state'.waitingForLaunch
          /\ \A k \in 1..Len(state.balls) :
               state'.balls[k] =
                 [state.balls[k] EXCEPT !.x = state'.paddle.x + state'.paddle.width \div 2,
                                        !.y = state'.paddle.y - state.balls[k].radius - 200]]_vars

(* Two balls at rest are held on the paddle, which has followed the        *)
(* pointer away from the middle of the field.                              *)
C38_Witness ==
  /\ tick.op = "gameLoop"
  /\ tick.pickups = <<>>
  /\ state.waitingForLaunch
  /\ Len(state.balls) = 2
  /\ \A k \in 1..2 :
       /\ AtRest(state.balls[k])
       /\ state.balls[k].x = state.paddle.x + state.paddle.width \div 2
       /\ state.balls[k].y = state.paddle.y - 1700
  /\ state.paddle.x # InitialState(Level1).paddle.x

(* A live brick of s overlaps the paddle's box.                            *)
BrickOverPaddle(s) ==
  \E k \in 1..Len(s.bricks) :
    /\ s.bricks[k].hits > 0
    /\ Overlaps(s.bricks[k].x, s.bricks[k].width, s.bricks[k].y, s.bricks[k].height,
                PaddleX(s), EffectiveWidth(s), s.paddle.y, s.paddle.height)

(* C39: a tick reports a loss only if it has brought the lives to zero or  *)
(* below or if, on a level with id divisible by 5, it ends with a live     *)
(* brick over the paddle's box.                                            *)
C39_LossOnlyForACause ==
  [][(/\ tick'.op = "gameLoop"
      /\ \E i \in 1..Len(tick'.calls) : ~tick'.calls[i].won) =>
       \/ state'.lives <= 0
       \/ \E i \in 1..Len(tick'.lives) : tick'.lives[i] <= 0
       \/ level.id % 5 = 0 /\ BrickOverPaddle(state')]_vars

(* The fireball, the power-up, after one tick of falling.                  *)
Fallen(f) == [f EXCEPT !.x = @ + f.dx, !.y = @ + f.dy]
Dropped(p) == [p EXCEPT !.y = @ + p.speed]

(* The fireball f is on the paddle of s.                                   *)
FireballOnPaddle(s, f) ==
  /\ f.y + FireballRadius > s.paddle.y
  /\ f.x > PaddleX(s)
  /\ f.x < PaddleX(s) + EffectiveWidth(s)
  /\ f.y < s.paddle.y + s.paddle.height

(* The power-up p is on the paddle of s.                                   *)
OnPaddle(s, p) ==
  /\ p.y + PowerupReach > s.paddle.y
  /\ p.x > PaddleX(s)
  /\ p.x < PaddleX(s) + EffectiveWidth(s)
  /\ p.y < s.paddle.y + s.paddle.height

(* Every fireball of s goes down, every power-up of s falls, and none is   *)
(* below the field.                                                        *)
AllFalling(s) ==
  /\ \A k \in 1..Len(s.fireballs) : s.fireballs[k].dy > 0 /\ s.fireballs[k].y <= CanvasHeight
  /\ \A k \in 1..Len(s.powerups) : s.powerups[k].speed > 0 /\ s.powerups[k].y <= CanvasHeight

(* C40: fireballs only go down and power-ups only fall; a tick of the      *)
(* running game that spawns none takes each of them dy, or speed, further  *)
(* down and removes exactly those that have reached the paddle or passed   *)
(* the bottom of the field, so that each is removed within                 *)
(* (1200 - y) / dy, or (1200 - y) / speed, ticks.                          *)
C40_FallingThingsLeave ==
  [][/\ AllFalling(state) /\ AllFalling(state')
     /\ (/\ tick'.op = "gameLoop"
         /\ state.isRunning /\ ~state.isPaused
         /\ state'.isRunning
         /\ ~state.bossActive
         /\ ~SmallBossActive(state) /\ ~SmallBossActive(state')
         /\ tick'.destroyed = 0) =>
          LET s == MovePaddle(state)
              fireballs == [k \in 1..Len(state.fireballs) |-> Fallen(state.fireballs[k])]
              powerups == [k \in 1..Len(state.powerups) |-> Dropped(state.powerups[k])]
          IN /\ state'.fireballs =
                  SelectSeq(fireballs,
                            LAMBDA f : f.y <= CanvasHeight /\ ~FireballOnPaddle(s, f))
             /\ state'.powerups =
                  SelectSeq(powerups,
                            LAMBDA p : p.y <= CanvasHeight /\ ~OnPaddle(s, p))]_vars

(* A fireball and a power-up have passed the bottom of the field beside    *)
(* the paddle in one tick, and the run goes on.                            *)
C40_Witness ==
  /\ tick.op = "gameLoop"
  /\ tick.offScreen = 2
  /\ tick.burns = 0 /\ tick.pickups = <<>>
  /\ state.fireballs = <<>> /\ state.powerups = <<>>
  /\ state.isRunning

====
